---- MODULE Spec2Model ----
(***************************************************************************)
(* Price History Store of the food-data API (src/api/main.py).             *)
(*                                                                         *)
(* The FastAPI handlers ingest_prices, get_prices and get_price_history    *)
(* are plain "def" handlers: the framework runs each request on a thread   *)
(* of its worker pool, so two requests interleave wherever the interpreter *)
(* may switch threads.  ingest_prices is therefore modelled statement by   *)
(* statement, with the list objects it shares on a heap; the two read      *)
(* handlers are modelled as one step each.                                 *)
(*                                                                         *)
(* Text (keys, names, sources, the decimal text of a JSON number) is a     *)
(* sequence of one-character strings, so that concatenation, lower() and   *)
(* the substring test "in" are computed as Python computes them.           *)
(***************************************************************************)
EXTENDS Integers, Sequences, FiniteSets, TLC

VARIABLES
    PRICE_DATA,   \* the dict, in insertion order: <<[key, name, packsize, source, price_history]>>
    lists,        \* heap of the price_history list objects: reference -> sequence of observations
    file,         \* prices.json: whether it exists and what it holds
    clock,        \* what datetime.now() returns (one reading for the whole run)
    pc,           \* per worker thread: the statement of ingest_prices it is at
    req,          \* per worker thread: the request body ("data")
    i,            \* per worker thread: number of items the for loop has taken
    ingested,     \* per worker thread: the local counter "ingested"
    timestamp,    \* per worker thread: the local "timestamp"
    held,         \* per worker thread: the list object whose append is being called
    sliced,       \* per worker thread: the value of the slice [-100:] not yet stored
    reply,        \* per worker thread: the response of its last ingest_prices call
    result,       \* the response of the last get_prices / get_price_history call
    nsub,         \* items submitted so far (bounds the run)
    since,        \* read requests answered since the last ingest call returned
    call,         \* the scraper function under way and its arguments
    returned,     \* what that function returned, once it has
    frame,        \* the local variables of a scraper script that runs in steps
    disk,         \* the catalogue files the scrapers write: data/zepto, data/bigbasket
    catalogue     \* the catalogue the API module holds once it is imported

vars == <<PRICE_DATA, lists, file, clock, pc, req, i, ingested, timestamp,
          held, sliced, reply, result, nsub, since, call, returned, frame,
          disk, catalogue>>

\* the scraper scripts run apart from the API process
scriptvars == <<call, returned, frame, disk, catalogue>>

\* the state of the API process
apivars == <<PRICE_DATA, lists, file, clock, pc, req, i, ingested, timestamp,
             held, sliced, reply, result, nsub, since>>

-----------------------------------------------------------------------------
(* Bounds of the model *)

MaxItems == 2          \* items submitted in one run of Spec
MaxRaceItems == 2      \* items submitted in one run of SpecConcurrent
MaxObservations == 152 \* items submitted in one run of SpecRetention

-----------------------------------------------------------------------------
(* Python values *)

None == <<"~None">>                 \* no text has a character "~None"
\* prices.json: PRICE_DATA_FILE.exists() and what it holds
NoFile == [exists |-> FALSE, data |-> <<>>]
NoRef == 0

Workers == {"w1", "w2"}

\* str(x) inside an f-string
Str(x) == IF x = None THEN <<"N", "o", "n", "e">> ELSE x

\* bool(x) for None and text
Truthy(x) == x # None /\ x # <<>>

\* p.get(k)
Get(p, k) == IF k \in DOMAIN p THEN p[k] ELSE None

\* d.get(k, default)
GetOr(d, k, default) == IF k \in DOMAIN d THEN d[k] ELSE default

\* the lower-case letter of each upper-case letter
LowerCase ==
    [A |-> "a", B |-> "b", C |-> "c", D |-> "d", E |-> "e", F |-> "f", G |-> "g",
     H |-> "h", I |-> "i", J |-> "j", K |-> "k", L |-> "l", M |-> "m", N |-> "n",
     O |-> "o", P |-> "p", Q |-> "q", R |-> "r", S |-> "s", T |-> "t", U |-> "u",
     V |-> "v", W |-> "w", X |-> "x", Y |-> "y", Z |-> "z"]

LowerChar(c) == IF c \in DOMAIN LowerCase THEN LowerCase[c] ELSE c

\* a letter of either case
IsLetter(c) == c \in DOMAIN LowerCase \/ c \in {LowerCase[u] : u \in DOMAIN LowerCase}

\* s.lower()
Lower(s) == [j \in 1..Len(s) |-> LowerChar(s[j])]

\* sub in s
Contains(sub, s) ==
    \E j \in 0..(Len(s) - Len(sub)) : SubSeq(s, j + 1, j + Len(sub)) = sub

HistoryLimit == 100

\* h[-101:], one observation too many
LastNOneMore(h, n) == IF Len(h) <= n + 1 THEN h ELSE SubSeq(h, Len(h) - n, Len(h))

\* h[-100:]
LastN(h, n) == IF Len(h) <= n THEN h ELSE SubSeq(h, Len(h) - n + 1, Len(h))

-----------------------------------------------------------------------------
(* The dict PRICE_DATA *)

Keys(pd) == {pd[j].key : j \in 1..Len(pd)}

\* key in PRICE_DATA
Has(pd, k) == k \in Keys(pd)

IndexOf(pd, k) == CHOOSE j \in 1..Len(pd) : pd[j].key = k

\* PRICE_DATA[key]
Lookup(pd, k) == pd[IndexOf(pd, k)]

\* PRICE_DATA[key] = entry (an existing key keeps its position)
DictSet(pd, k, entry) ==
    IF Has(pd, k) THEN [pd EXCEPT ![IndexOf(pd, k)] = entry]
    ELSE Append(pd, entry)

\* PRICE_DATA[key]['price_history']
HistoryOf(pd, ls, k) == ls[Lookup(pd, k).price_history]

\* the lowest free reference
NewRef(ls) == CHOOSE r \in 1..(Cardinality(DOMAIN ls) + 1) :
                 /\ r \notin DOMAIN ls
                 /\ \A q \in 1..(r - 1) : q \in DOMAIN ls

\* reference counting: a list nobody refers to is freed
Live(pd, hd) == {pd[j].price_history : j \in 1..Len(pd)}
                  \cup {hd[t] : t \in {w \in Workers : hd[w] # NoRef}}

Collect(ls, pd, hd) == [r \in (DOMAIN ls) \cap Live(pd, hd) |-> ls[r]]

\* the value of one series dict, as it is serialised
SeriesValue(e, ls) ==
    [name |-> e.name, packsize |-> e.packsize, source |-> e.source,
     price_history |-> ls[e.price_history]]

\* what json.dump writes and json.load reads back: the values, without
\* the identity of the list objects
Dump(pd, ls) ==
    [j \in 1..Len(pd) |->
        [key |-> pd[j].key, name |-> pd[j].name, packsize |-> pd[j].packsize,
         source |-> pd[j].source, price_history |-> ls[pd[j].price_history]]]

\* PRICE_DATA = json.load(f): every price_history becomes a list object
LoadDict(f) ==
    IF ~f.exists THEN <<>>
    ELSE [j \in 1..Len(f.data) |->
            [key |-> f.data[j].key, name |-> f.data[j].name,
             packsize |-> f.data[j].packsize, source |-> f.data[j].source,
             price_history |-> j]]

LoadLists(f) ==
    IF ~f.exists THEN <<>>
    ELSE [j \in 1..Len(f.data) |-> f.data[j].price_history]

-----------------------------------------------------------------------------
(* ingest_prices, statement by statement *)

Products(t) == GetOr(req[t], "products", <<>>)
Source(t) == GetOr(req[t], "source", <<"u", "n", "k", "n", "o", "w", "n">>)
Location(t) == GetOr(req[t], "location", <<"u", "n", "k", "n", "o", "w", "n">>)

\* the name is tried before the variant id
KeyOfNameFirst(source, p) ==
    Str(source) \o <<":">> \o
    Str(IF Truthy(Get(p, "name")) THEN Get(p, "name") ELSE Get(p, "variant_id"))

\* key = f"{source}:{p.get('variant_id') or p.get('name')}"
KeyOf(source, p) ==
    Str(source) \o <<":">> \o
    Str(IF Truthy(Get(p, "variant_id")) THEN Get(p, "variant_id") ELSE Get(p, "name"))

Item(t) == Products(t)[i[t] + 1]
Key(t) == KeyOf(Source(t), Item(t))

Observation(p, location, ts) ==
    [mrp |-> Get(p, "mrp"), selling_price |-> Get(p, "selling_price"),
     discount_pct |-> Get(p, "discount_pct"), location |-> location,
     timestamp |-> ts]

\* lines 275-280: read the request, take the timestamp
Begin(t, data) ==
    /\ UNCHANGED scriptvars
    /\ pc[t] = "idle"
    /\ req' = [req EXCEPT ![t] = data]
    /\ timestamp' = [timestamp EXCEPT ![t] = clock]
    /\ ingested' = [ingested EXCEPT ![t] = 0]
    /\ i' = [i EXCEPT ![t] = 0]
    /\ pc' = [pc EXCEPT ![t] = "for"]
    /\ nsub' = nsub + Len(GetOr(data, "products", <<>>))
    /\ UNCHANGED <<PRICE_DATA, lists, file, clock, held, sliced, reply, result, since>>

\* lines 281-285: next item, its key, "if key not in PRICE_DATA"; or leave the loop
For(t) ==
    /\ UNCHANGED scriptvars
    /\ pc[t] = "for"
    /\ IF i[t] < Len(Products(t))
         THEN pc' = [pc EXCEPT ![t] = IF Has(PRICE_DATA, Key(t)) THEN "load" ELSE "create"]
         ELSE pc' = [pc EXCEPT ![t] = "persist"]
    /\ UNCHANGED <<PRICE_DATA, lists, file, clock, req, i, ingested, timestamp,
                   held, sliced, reply, result, nsub, since>>

\* lines 286-291: PRICE_DATA[key] = {...}; p['name'] raises KeyError
Create(t) ==
    /\ UNCHANGED scriptvars
    /\ pc[t] = "create"
    /\ IF "name" \in DOMAIN Item(t)
         THEN LET r == NewRef(lists)
                  pd == DictSet(PRICE_DATA, Key(t),
                                [key |-> Key(t), name |-> Item(t).name,
                                 packsize |-> Get(Item(t), "packsize"),
                                 source |-> Source(t), price_history |-> r])
              IN /\ PRICE_DATA' = pd
                 /\ lists' = Collect([q \in DOMAIN lists \cup {r} |->
                                         IF q = r THEN <<>> ELSE lists[q]], pd, held)
                 /\ pc' = [pc EXCEPT ![t] = "load"]
                 /\ UNCHANGED <<reply, i, ingested, timestamp, since>>
         ELSE /\ pc' = [pc EXCEPT ![t] = "idle"]
              /\ reply' = [reply EXCEPT ![t] = [status |-> "error"]]
              /\ i' = [i EXCEPT ![t] = 0]
              /\ ingested' = [ingested EXCEPT ![t] = 0]
              /\ timestamp' = [timestamp EXCEPT ![t] = 0]
              /\ since' = 0
              /\ UNCHANGED <<PRICE_DATA, lists>>
    /\ UNCHANGED <<file, clock, req, held, sliced, result, nsub>>

\* line 293: PRICE_DATA[key]['price_history'].append, the list object is fetched
Load(t) ==
    /\ UNCHANGED scriptvars
    /\ pc[t] = "load"
    /\ held' = [held EXCEPT ![t] = Lookup(PRICE_DATA, Key(t)).price_history]
    /\ pc' = [pc EXCEPT ![t] = "append"]
    /\ UNCHANGED <<PRICE_DATA, lists, file, clock, req, i, ingested, timestamp,
                   sliced, reply, result, nsub, since>>

\* an observation equal to one already in the list is not appended
AppendObsCollapsed(t) ==
    /\ UNCHANGED scriptvars
    /\ pc[t] = "append"
    /\ LET hd == [held EXCEPT ![t] = NoRef]
           o == Observation(Item(t), Location(t), timestamp[t])
           ls == [lists EXCEPT ![held[t]] =
                     IF \E j \in 1..Len(@) : @[j] = o THEN @ ELSE Append(@, o)]
       IN /\ held' = hd
          /\ lists' = Collect(ls, PRICE_DATA, hd)
    /\ pc' = [pc EXCEPT ![t] = "slice"]
    /\ UNCHANGED <<PRICE_DATA, file, clock, req, i, ingested, timestamp,
                   sliced, reply, result, nsub, since>>

\* lines 293-299: the observation is built and appended to the fetched list
AppendObs(t) ==
    /\ UNCHANGED scriptvars
    /\ pc[t] = "append"
    /\ LET hd == [held EXCEPT ![t] = NoRef]
           ls == [lists EXCEPT ![held[t]] =
                     Append(@, Observation(Item(t), Location(t), timestamp[t]))]
       IN /\ held' = hd
          /\ lists' = Collect(ls, PRICE_DATA, hd)
    /\ pc' = [pc EXCEPT ![t] = "slice"]
    /\ UNCHANGED <<PRICE_DATA, file, clock, req, i, ingested, timestamp,
                   sliced, reply, result, nsub, since>>

\* line 302, right-hand side: PRICE_DATA[key]['price_history'][-100:]
Slice(t) ==
    /\ UNCHANGED scriptvars
    /\ pc[t] = "slice"
    /\ sliced' = [sliced EXCEPT ![t] = LastN(HistoryOf(PRICE_DATA, lists, Key(t)), HistoryLimit)]
    /\ pc' = [pc EXCEPT ![t] = "store"]
    /\ UNCHANGED <<PRICE_DATA, lists, file, clock, req, i, ingested, timestamp,
                   held, reply, result, nsub, since>>

\* lines 302-303: PRICE_DATA[key]['price_history'] = <the slice>; ingested += 1
Store(t) ==
    /\ UNCHANGED scriptvars
    /\ pc[t] = "store"
    /\ LET r == NewRef(lists)
           pd == [PRICE_DATA EXCEPT ![IndexOf(PRICE_DATA, Key(t))].price_history = r]
       IN /\ PRICE_DATA' = pd
          /\ lists' = Collect([q \in DOMAIN lists \cup {r} |->
                                  IF q = r THEN sliced[t] ELSE lists[q]], pd, held)
    /\ sliced' = [sliced EXCEPT ![t] = <<>>]
    /\ ingested' = [ingested EXCEPT ![t] = @ + 1]
    /\ i' = [i EXCEPT ![t] = @ + 1]
    /\ pc' = [pc EXCEPT ![t] = "for"]
    /\ UNCHANGED <<file, clock, req, timestamp, held, reply, result, nsub, since>>

\* lines 306-307: json.dump(PRICE_DATA, f)
Persist(t) ==
    /\ UNCHANGED scriptvars
    /\ pc[t] = "persist"
    /\ file' = [exists |-> TRUE, data |-> Dump(PRICE_DATA, lists)]
    /\ pc' = [pc EXCEPT ![t] = "return"]
    /\ UNCHANGED <<PRICE_DATA, lists, clock, req, i, ingested, timestamp,
                   held, sliced, reply, result, nsub, since>>

\* total_tracked counts the items of the batch, not the series
ReturnBatchAsTotal(t) ==
    /\ UNCHANGED scriptvars
    /\ pc[t] = "return"
    /\ reply' = [reply EXCEPT ![t] =
                    [status |-> "success", ingested |-> ingested[t],
                     total_tracked |-> ingested[t], timestamp |-> timestamp[t]]]
    /\ pc' = [pc EXCEPT ![t] = "idle"]
    /\ i' = [i EXCEPT ![t] = 0]
    /\ ingested' = [ingested EXCEPT ![t] = 0]
    /\ timestamp' = [timestamp EXCEPT ![t] = 0]
    /\ since' = 0
    /\ UNCHANGED <<PRICE_DATA, lists, file, clock, req, held, sliced, result, nsub>>

\* lines 309-314: the response
Return(t) ==
    /\ UNCHANGED scriptvars
    /\ pc[t] = "return"
    /\ reply' = [reply EXCEPT ![t] =
                    [status |-> "success", ingested |-> ingested[t],
                     total_tracked |-> Len(PRICE_DATA), timestamp |-> timestamp[t]]]
    /\ pc' = [pc EXCEPT ![t] = "idle"]
    /\ i' = [i EXCEPT ![t] = 0]
    /\ ingested' = [ingested EXCEPT ![t] = 0]
    /\ timestamp' = [timestamp EXCEPT ![t] = 0]
    /\ since' = 0
    /\ UNCHANGED <<PRICE_DATA, lists, file, clock, req, held, sliced, result, nsub>>

\* one statement of the ingest_prices call that worker t is running
IngestStep(t) ==
    \/ For(t)
    \/ Create(t)
    \/ Load(t)
    \/ AppendObs(t)
    \/ Slice(t)
    \/ Store(t)
    \/ Persist(t)
    \/ Return(t)

-----------------------------------------------------------------------------
(* get_prices and get_price_history *)

\* the oldest observation is reported, not the latest
SummaryOldest(e, ls) ==
    LET h == ls[e.price_history]
        latest == IF h # <<>> THEN h[1] ELSE [none |-> None]
    IN [key |-> e.key, name |-> e.name, packsize |-> e.packsize, source |-> e.source,
        current_price |-> Get(latest, "selling_price"),
        mrp |-> Get(latest, "mrp"),
        discount_pct |-> Get(latest, "discount_pct"),
        last_updated |-> Get(latest, "timestamp"),
        price_points |-> Len(h)]

\* one element of "results": lines 332-343
Summary(e, ls) ==
    LET h == ls[e.price_history]
        latest == IF h # <<>> THEN h[Len(h)] ELSE [none |-> None]
    IN [key |-> e.key, name |-> e.name, packsize |-> e.packsize, source |-> e.source,
        current_price |-> Get(latest, "selling_price"),
        mrp |-> Get(latest, "mrp"),
        discount_pct |-> Get(latest, "discount_pct"),
        last_updated |-> Get(latest, "timestamp"),
        price_points |-> Len(h)]

\* lines 327-330: the two "continue" tests
Matches(e, q, source) ==
    /\ ~(Truthy(q) /\ ~Contains(Lower(q), Lower(e.name)))
    /\ ~(Truthy(source) /\ ~Contains(Lower(source), Lower(e.source)))

\* lines 324-343: the loop over PRICE_DATA.items()
Results(pd, ls, q, source) ==
    LET Test(e) == Matches(e, q, source)
        m == SelectSeq(pd, Test)
    IN [j \in 1..Len(m) |-> Summary(m[j], ls)]

\* one entry more than the limit is kept
FirstNOneMore(s, n) == IF Len(s) <= n + 1 THEN s ELSE SubSeq(s, 1, n + 1)

\* results[:limit]
FirstN(s, n) == IF Len(s) <= n THEN s ELSE SubSeq(s, 1, n)

Bump(n) == IF n < 2 THEN n + 1 ELSE 2

\* lines 317-348
GetPrices(q, source, limit) ==
    /\ UNCHANGED scriptvars
    /\ LET r == Results(PRICE_DATA, lists, q, source)
       IN result' = [op |-> "get_prices", q |-> q, source |-> source, limit |-> limit,
                     total |-> Len(r), results |-> FirstN(r, limit)]
    /\ since' = Bump(since)
    /\ UNCHANGED <<PRICE_DATA, lists, file, clock, pc, req, i, ingested, timestamp,
                   held, sliced, reply, nsub>>

IsHex(c) == c \in {"0", "1", "2", "3", "4", "5", "6", "7", "8", "9",
                   "A", "B", "C", "D", "E", "F", "a", "b", "c", "d", "e", "f"}

\* the character with the given two-digit hexadecimal code
FromHex(a, b) ==
    IF <<a, b>> = <<"4", "1">> THEN "A"
    ELSE IF <<a, b>> = <<"3", "A">> \/ <<a, b>> = <<"3", "a">> THEN ":"
    ELSE IF <<a, b>> = <<"2", "5">> THEN "%"
    ELSE IF <<a, b>> = <<"2", "0">> THEN " "
    ELSE "?"

\* urllib.parse.unquote: every %xx with two hexadecimal digits is decoded
RECURSIVE unquote(_)
unquote(s) ==
    IF s = <<>> THEN <<>>
    ELSE IF Len(s) >= 3 /\ s[1] = "%" /\ IsHex(s[2]) /\ IsHex(s[3])
         THEN <<FromHex(s[2], s[3])>> \o unquote(SubSeq(s, 4, Len(s)))
         ELSE <<s[1]>> \o unquote(SubSeq(s, 2, Len(s)))

\* lines 351-361
GetPriceHistory(k) ==
    /\ UNCHANGED scriptvars
    /\ LET key == unquote(k)
       IN IF ~Has(PRICE_DATA, key)
            THEN result' = [op |-> "get_price_history", key |-> k, status |-> 404]
            ELSE result' = [op |-> "get_price_history", key |-> k, status |-> 200,
                            body |-> SeriesValue(Lookup(PRICE_DATA, key), lists)]
    /\ since' = Bump(since)
    /\ UNCHANGED <<PRICE_DATA, lists, file, clock, pc, req, i, ingested, timestamp,
                   held, sliced, reply, nsub>>

-----------------------------------------------------------------------------
(* The state after module import: lines 243-249 *)

NoReply == [op |-> "none", status |-> "none"]

\* no scraper function is under way
NoCall == [fn |-> "none"]
NotReturned == [done |-> FALSE]
NoFrame == [at |-> "none"]
\* no catalogue file is written yet, and the API module is not imported
Absent == [exists |-> FALSE]
NoDisk == [categories_json |-> Absent, brands_json |-> Absent, products_json |-> Absent,
           products_food_json |-> Absent, products_all_json |-> Absent,
           bigbasket_food_json |-> Absent]
NotLoaded == [loaded |-> FALSE]

BootStore(f) ==
    /\ file = f
    /\ PRICE_DATA = LoadDict(f)
    /\ lists = LoadLists(f)
    /\ clock = 0
    /\ pc = [t \in Workers |-> "idle"]
    /\ req = [t \in Workers |-> [products |-> <<>>]]
    /\ i = [t \in Workers |-> 0]
    /\ ingested = [t \in Workers |-> 0]
    /\ timestamp = [t \in Workers |-> 0]
    /\ held = [t \in Workers |-> NoRef]
    /\ sliced = [t \in Workers |-> <<>>]
    /\ reply = [t \in Workers |-> NoReply]
    /\ result = NoReply
    /\ nsub = 0
    /\ since = 2

Boot(f) ==
    /\ BootStore(f)
    /\ call = NoCall
    /\ returned = NotReturned
    /\ frame = NoFrame
    /\ disk = NoDisk
    /\ catalogue = NotLoaded

\* the process is stopped and started again: lines 243-249 run anew
Restart ==
    /\ UNCHANGED scriptvars
    /\ PRICE_DATA' = LoadDict(file)
    /\ lists' = LoadLists(file)
    /\ pc' = [t \in Workers |-> "idle"]
    /\ req' = [t \in Workers |-> [products |-> <<>>]]
    /\ i' = [t \in Workers |-> 0]
    /\ ingested' = [t \in Workers |-> 0]
    /\ timestamp' = [t \in Workers |-> 0]
    /\ held' = [t \in Workers |-> NoRef]
    /\ sliced' = [t \in Workers |-> <<>>]
    /\ reply' = [t \in Workers |-> NoReply]
    /\ result' = NoReply
    /\ since' = 2
    /\ UNCHANGED <<file, clock, nsub>>

-----------------------------------------------------------------------------
(* SpecRetention: one client ingests a long run of observations for one    *)
(* series, one call after another.                                         *)

RetentionName == <<"r", "i", "c", "e">>
RetentionId == <<"7">>
RetentionSource == <<"z">>
RetentionKey == <<"z", ":", "7">>

\* the n-th observation the client submits: the price repeats with period 3
NthPrice(n) == <<"4", "1", IF n % 3 = 0 THEN "0" ELSE IF n % 3 = 1 THEN "1" ELSE "2">>

NthItem(n) == [name |-> RetentionName, variant_id |-> RetentionId,
               selling_price |-> NthPrice(n)]

RetentionRequest(n, b) ==
    [products |-> [j \in 1..b |-> NthItem(n + j)], source |-> RetentionSource]

RetentionBegin ==
    /\ nsub < MaxObservations
    /\ \E b \in 1..2 : Begin("w1", RetentionRequest(nsub, b))

InitRetention == Boot(NoFile)

NextRetention == RetentionBegin \/ IngestStep("w1")

SpecRetention == InitRetention /\ [][NextRetention]_vars

-----------------------------------------------------------------------------
(* Spec: the requests of one client, answered one after another.           *)

SrcZ == <<"z">>
SrcZB == <<"z", ":", "b">>

\* a product with a variant id
ItemRice == [name |-> <<"A">>, variant_id |-> <<"c">>, packsize |-> <<"1", "k", "g">>,
             mrp |-> <<"9">>, selling_price |-> <<"8">>, discount_pct |-> <<"2">>]
\* the same product at another price, no pack size
ItemRiceCheap == [name |-> <<"A">>, variant_id |-> <<"c">>, selling_price |-> <<"7">>]
\* a product keyed by its name, which holds a percent sign
ItemByName == [name |-> <<"%", "4", "1">>, selling_price |-> <<"6">>]
\* an empty variant id
ItemEmptyId == [name |-> <<"A">>, variant_id |-> <<>>, selling_price |-> <<"5">>]
\* an item without a name
ItemNoName == [variant_id |-> <<"b", ":", "c">>, selling_price |-> <<"4">>]
\* a variant id that holds a colon
ItemColon == [name |-> <<"b">>, variant_id |-> <<"b", ":", "c">>, selling_price |-> <<"3">>]

Batches == {<<>>, <<ItemRice>>, <<ItemByName>>, <<ItemEmptyId>>, <<ItemNoName>>,
            <<ItemColon>>, <<ItemRice, ItemRiceCheap>>, <<ItemRice, ItemNoName>>,
            <<ItemByName, ItemRice>>}

Requests ==
    {[products |-> b, source |-> SrcZ, location |-> <<"b", "l", "r">>] : b \in Batches}
      \cup {[products |-> <<ItemRice>>, source |-> SrcZB, location |-> <<"b", "l", "r">>],
            [products |-> <<ItemRiceCheap>>]}

DefaultLimit == 50

\* the parameters q, source and limit of the get_prices requests
PriceQueries == {<<None, SrcZ, 1>>, <<None, SrcZ, DefaultLimit>>,
                 <<None, SrcZB, DefaultLimit>>, <<<<"A">>, None, DefaultLimit>>}

\* the keys of the get_price_history requests
HistoryKeys == {<<"z", ":", "c">>, <<"z", ":", "%", "4", "1">>, <<"z", "%", "3", "A", "c">>}

SeqBegin ==
    /\ \E data \in Requests :
         /\ nsub + Len(GetOr(data, "products", <<>>)) <= MaxItems
         /\ Begin("w1", data)

SeqGetPrices ==
    /\ pc["w1"] = "idle"
    /\ \E a \in PriceQueries : GetPrices(a[1], a[2], a[3])

SeqGetPriceHistory ==
    /\ pc["w1"] = "idle"
    /\ \E k \in HistoryKeys : GetPriceHistory(k)

Init == Boot(NoFile)

Next ==
    \/ SeqBegin
    \/ IngestStep("w1")
    \/ SeqGetPrices
    \/ SeqGetPriceHistory
    \/ Restart

Spec == Init /\ [][Next]_vars

-----------------------------------------------------------------------------
(* SpecConcurrent: two worker threads answer requests at the same time.    *)
(* The process starts from an empty store or from a prices.json written by *)
(* an earlier run, in which one series is full.                            *)

OldObservation == Observation([selling_price |-> <<"1">>], <<"b", "l", "r">>, 0)

OldFile(n) ==
    [exists |-> TRUE,
     data |-> <<[key |-> <<"z", ":", "c">>, name |-> <<"A">>, packsize |-> None,
                 source |-> SrcZ, price_history |-> [j \in 1..n |-> OldObservation]]>>]

StartFiles == {NoFile, OldFile(HistoryLimit)}

RaceRequests ==
    {[products |-> b, source |-> SrcZ] :
        b \in {<<ItemRice>>, <<ItemRiceCheap>>, <<ItemByName>>}}

\* a read request changes nothing in the store: a run is followed up to
\* its first read, which may come at any moment
Unread == result = NoReply

ConcBegin ==
    /\ Unread
    /\ \E t \in Workers, data \in RaceRequests :
         /\ nsub + Len(GetOr(data, "products", <<>>)) <= MaxRaceItems
         /\ Begin(t, data)

ConcIngestStep == Unread /\ \E t \in Workers : IngestStep(t)

ConcGetPrices == Unread /\ GetPrices(None, SrcZ, DefaultLimit)

ConcGetPriceHistory == Unread /\ GetPriceHistory(<<"z", ":", "c">>)

InitConcurrent == \E f \in StartFiles : Boot(f)

NextConcurrent ==
    \/ ConcBegin
    \/ ConcIngestStep
    \/ ConcGetPrices
    \/ ConcGetPriceHistory

SpecConcurrent == InitConcurrent /\ [][NextConcurrent]_vars

AllIdle == \A t \in Workers : pc[t] = "idle"

Range(f) == {f[x] : x \in DOMAIN f}

Min(a, b) == IF a <= b THEN a ELSE b

\* the observations held under key k, <<>> when the key is absent
History(k) == IF Has(PRICE_DATA, k) THEN HistoryOf(PRICE_DATA, lists, k) ELSE <<>>

-----------------------------------------------------------------------------
(* C1 *)

\* the workers that have appended to the series k and not yet stored its trimmed copy
Trimming(k) == {t \in Workers : pc[t] \in {"slice", "store"} /\ Key(t) = k}

-----------------------------------------------------------------------------
(* C2 *)

\* the observations of the retention client whose ingestion is complete
RetentionDone ==
    IF pc["w1"] = "idle" THEN nsub ELSE nsub - Len(Products("w1")) + i["w1"]

NthObservation(n) == Observation(NthItem(n), Location("w1"), 0)

\* C2: after n observations ingested one after another for one key, the
\* series is exactly the last min(n, 100) of them in ingestion order, equal
\* observations included.
C2_LastHundredInOrder ==
    pc["w1"] \in {"idle", "for", "persist", "return"} =>
        LET n == RetentionDone
            m == Min(n, HistoryLimit)
        IN History(RetentionKey) = [j \in 1..m |-> NthObservation(n - m + j)]

\* 150 observations are in: the series starts with the 51st
C2_Witness ==
    /\ pc["w1"] = "idle"
    /\ nsub = 150
    /\ Len(History(RetentionKey)) = 100
    /\ History(RetentionKey)[1] = NthObservation(51)
    /\ History(RetentionKey)[100] = NthObservation(150)
    /\ History(RetentionKey)[1] = History(RetentionKey)[4]

-----------------------------------------------------------------------------
(* C3 *)

\* the observations of the last call of worker t, with the series they belong to
Submitted(t) ==
    {<<KeyOf(Source(t), Products(t)[j]),
       Observation(Products(t)[j], Location(t), reply[t].timestamp)>> :
        j \in 1..Len(Products(t))}

\* C3: once the ingest calls have returned, the history of a series holds
\* the observations of every call that carried one for it (a run ingests far
\* fewer than 100 observations, so none of them can have been evicted).
C3_NoLostUpdate ==
    AllIdle =>
        \A t \in {w \in Workers : reply[w].status = "success"} :
            \A s \in Submitted(t) : s[2] \in Range(History(s[1]))

-----------------------------------------------------------------------------
(* C4 *)

\* C4: a reader never sees a series with an empty history or with more than
\* 100 observations.
C4_ReadersSeeWholeSeries ==
    /\ result.op = "get_prices" =>
         \A e \in Range(result.results) : e.price_points \in 1..HistoryLimit
    /\ (result.op = "get_price_history" /\ result.status = 200) =>
         Len(result.body.price_history) \in 1..HistoryLimit

-----------------------------------------------------------------------------
(* C5 *)

\* the last get_prices call, filtered by source only, directly followed an
\* ingest call of the client that returned, and its filter is that call's source
QueriedRightAfterIngest ==
    /\ pc["w1"] = "idle"
    /\ since = 1
    /\ reply["w1"].status = "success"
    /\ result.op = "get_prices"
    /\ result.q = None
    /\ result.source = Source("w1")

\* the keys the last ingest call touched
Touched == {KeyOf(Source("w1"), Products("w1")[j]) : j \in 1..Len(Products("w1"))}

\* the selling price of the last item of the batch that resolves to key k
LatestPrice(k) ==
    LET js == {j \in 1..Len(Products("w1")) : KeyOf(Source("w1"), Products("w1")[j]) = k}
        last == CHOOSE j \in js : \A m \in js : m <= j
    IN Get(Products("w1")[last], "selling_price")

\* C5 as claimed: the query returns an entry for every touched key, with the
\* latest selling price.
C5_QueryReturnsEveryTouchedKey ==
    QueriedRightAfterIngest =>
        \A k \in Touched :
            \E e \in Range(result.results) :
                e.key = k /\ e.current_price = LatestPrice(k)

\* the series stored under k was created with a source that contains s
StoredSourceContains(k, s) ==
    \E j \in 1..Len(PRICE_DATA) :
        PRICE_DATA[j].key = k /\ Contains(Lower(s), Lower(PRICE_DATA[j].source))

\* the rank of k among the series whose source contains s, in store order
RankAmongMatching(k, s) ==
    Cardinality({j \in 1..Len(PRICE_DATA) :
                    /\ Contains(Lower(s), Lower(PRICE_DATA[j].source))
                    /\ \E m \in j..Len(PRICE_DATA) : PRICE_DATA[m].key = k})

\* C5 (amended): the query returns an entry for a touched key exactly when
\* the series under that key was created with a source containing S and is
\* among the first "limit" series matching the filter; a returned entry
\* carries the selling price of the most recently ingested observation.
C5_QueryReturnsLatestWithinLimit ==
    QueriedRightAfterIngest =>
        \A k \in Touched :
            /\ \A e \in Range(result.results) :
                  e.key = k => e.current_price = LatestPrice(k)
            /\ (\E e \in Range(result.results) : e.key = k)
                 <=> (/\ StoredSourceContains(k, result.source)
                      /\ RankAmongMatching(k, result.source) <= result.limit)

\* the batch held the same series twice at two prices and the query shows
\* the later price
C5_Witness ==
    /\ QueriedRightAfterIngest
    /\ Products("w1") = <<ItemRice, ItemRiceCheap>>
    /\ \E e \in Range(result.results) :
         e.key = <<"z", ":", "c">> /\ e.current_price = ItemRiceCheap.selling_price

-----------------------------------------------------------------------------
(* C6 *)

\* the last request was a get_price_history and the store is as it was then
HistoryJustRead ==
    pc["w1"] = "idle" /\ since >= 1 /\ result.op = "get_price_history"

\* C6: get_price_history answers 404 for a key that is not in the store and
\* the whole series, in order, for a key that is.
C6_HistoryOfTheKey ==
    HistoryJustRead =>
        IF Has(PRICE_DATA, result.key)
          THEN /\ result.status = 200
               /\ result.body = SeriesValue(Lookup(PRICE_DATA, result.key), lists)
          ELSE result.status = 404

-----------------------------------------------------------------------------
(* C7 *)

Active(k) == Has(PRICE_DATA, k) /\ History(k) # <<>>

\* C7: a series that is active (present, with observations) stays active at
\* every step of every later request.
C7_ActiveStaysActive ==
    [][\A k \in Keys(PRICE_DATA) :
          (History(k) # <<>>) =>
              (Has(PRICE_DATA', k) /\ HistoryOf(PRICE_DATA', lists', k) # <<>>)]_vars

-----------------------------------------------------------------------------
(* C8 *)

\* the key the claim gives an item: the variant id when there is one, else the name
ClaimedKey(source, p) ==
    IF "variant_id" \in DOMAIN p /\ p.variant_id # <<>> /\ p.variant_id # None
      THEN source \o <<":">> \o p.variant_id
      ELSE source \o <<":">> \o (IF "name" \in DOMAIN p THEN p.name
                                 ELSE <<"N", "o", "n", "e">>)

\* worker w1 is working on an item
AtItem == pc["w1"] \in {"create", "load", "append", "slice", "store"}

\* C8: when the for loop has finished an item, the series under the item's
\* key (source:variant_id, or source:name without a variant id) exists and
\* ends with the item's observation; while an item is worked on, no other
\* series changes and no other key appears.
C8_AppendedToItsSeries ==
    /\ []((pc["w1"] = "for" /\ i["w1"] >= 1) =>
             LET p == Products("w1")[i["w1"]]
                 k == ClaimedKey(Source("w1"), p)
                 h == History(k)
             IN /\ Has(PRICE_DATA, k)
                /\ h # <<>>
                /\ h[Len(h)] = Observation(p, Location("w1"), timestamp["w1"]))
    /\ [][AtItem /\ pc'["w1"] # "idle" =>
             LET k == ClaimedKey(Source("w1"), Item("w1"))
             IN /\ Keys(PRICE_DATA') \subseteq Keys(PRICE_DATA) \cup {k}
                /\ \A o \in Keys(PRICE_DATA) \ {k} :
                      /\ Has(PRICE_DATA', o)
                      /\ HistoryOf(PRICE_DATA', lists', o) = History(o)]_vars

\* an item without a variant id has been appended to a series created for
\* it under its name, next to a series keyed by a variant id
C8_Witness ==
    /\ pc["w1"] = "for"
    /\ i["w1"] = 1
    /\ Products("w1")[1] = ItemByName
    /\ Keys(PRICE_DATA) = {<<"z", ":", "c">>, <<"z", ":", "%", "4", "1">>}
    /\ Len(History(<<"z", ":", "%", "4", "1">>)) = 1

-----------------------------------------------------------------------------
(* C9 *)

\* the ingest call of the client has just returned
JustReturned ==
    pc["w1"] = "idle" /\ since = 0 /\ reply["w1"].status = "success"

\* C9: the response of a completed ingest call carries the number of items
\* of its batch and the number of distinct keys in the store.
C9_CountsInResponse ==
    JustReturned =>
        /\ reply["w1"].ingested = Len(Products("w1"))
        /\ reply["w1"].total_tracked = Cardinality(Keys(PRICE_DATA))

\* a batch of two items for one key has returned: 2 ingested, 1 tracked
C9_Witness ==
    /\ JustReturned
    /\ reply["w1"].ingested = 2
    /\ reply["w1"].total_tracked = 1

-----------------------------------------------------------------------------
(* C10 *)

\* what a restart would load
Persisted == IF file.exists THEN file.data ELSE <<>>

\* C10: whenever no ingest call is in progress, the persisted store equals
\* the store in memory (so that a restart brings back the same store).
C10_PersistedEqualsMemory ==
    pc["w1"] = "idle" => Persisted = Dump(PRICE_DATA, lists)

-----------------------------------------------------------------------------
(* C11 *)

\* an ingest call of the client has just ended, by return or by exception
JustEnded ==
    pc["w1"] = "idle" /\ since = 0 /\ reply["w1"] # NoReply

\* the observation of item p is in the series of its key
Appended(p) ==
    \E o \in Range(History(KeyOf(Source("w1"), p))) :
        o = Observation(p, Location("w1"), o.timestamp)

\* C11: an item that cannot be ingested does not abort the batch: the call
\* still ends with a success response, every item of the batch that carries
\* a name has its observation in its series, and the store is persisted.
C11_ItemFailureIsolated ==
    JustEnded =>
        /\ reply["w1"].status = "success"
        /\ \A j \in 1..Len(Products("w1")) :
               "name" \in DOMAIN Products("w1")[j] => Appended(Products("w1")[j])
        /\ Persisted = Dump(PRICE_DATA, lists)

-----------------------------------------------------------------------------
(* SpecClock: two worker threads ingest observations for one key while     *)
(* the wall clock advances between their statements.                       *)

MaxClock == 2          \* readings the clock advances through in one run of SpecClock
MaxClockItems == 2     \* items submitted in one run of SpecClock

\* time passes: the next datetime.now() (line 278) returns a later reading
Tick ==
    /\ UNCHANGED scriptvars
    /\ clock < MaxClock
    /\ clock' = clock + 1
    /\ UNCHANGED <<PRICE_DATA, lists, file, pc, req, i, ingested, timestamp,
                   held, sliced, reply, result, nsub, since>>

ClockRequests == {[products |-> <<ItemRice>>, source |-> SrcZ],
                  [products |-> <<ItemRiceCheap>>, source |-> SrcZ]}

ClockBegin ==
    \E t \in Workers, data \in ClockRequests :
        /\ nsub + Len(data.products) <= MaxClockItems
        /\ Begin(t, data)

ClockIngestStep == \E t \in Workers : IngestStep(t)

InitClock == Boot(NoFile)

NextClock ==
    \/ ClockBegin
    \/ ClockIngestStep
    \/ Tick

SpecClock == InitClock /\ [][NextClock]_vars

-----------------------------------------------------------------------------
(* C12 *)

\* C12: in every state the timestamps of each series run from oldest to
\* newest: no observation is followed by one with an earlier timestamp.
C12_Chronological ==
    \A k \in Keys(PRICE_DATA) :
        \A a, b \in 1..Len(History(k)) :
            a < b => History(k)[a].timestamp <= History(k)[b].timestamp

-----------------------------------------------------------------------------
(* C13 *)

\* the last request was a get_prices and the store is as it was then
PricesJustRead ==
    pc["w1"] = "idle" /\ since >= 1 /\ result.op = "get_prices"

\* a filter that is absent or empty matches every text; otherwise it must
\* be contained in the text, letter case aside
Passes(filter, text) ==
    filter = None \/ filter = <<>> \/ Contains(Lower(filter), Lower(text))

\* the positions in the store of the series that match the last query
Matching ==
    {j \in 1..Len(PRICE_DATA) :
        /\ Passes(result.q, PRICE_DATA[j].name)
        /\ Passes(result.source, PRICE_DATA[j].source)}

\* entry e describes the series at position j by its metadata, its latest
\* observation and its number of observations, and by nothing else
Summarises(e, j) ==
    LET s == PRICE_DATA[j]
        h == lists[s.price_history]
    IN /\ DOMAIN e = {"key", "name", "packsize", "source", "current_price", "mrp",
                      "discount_pct", "last_updated", "price_points"}
       /\ e.key = s.key /\ e.name = s.name
       /\ e.packsize = s.packsize /\ e.source = s.source
       /\ e.price_points = Len(h)
       /\ h # <<>> =>
            /\ e.current_price = h[Len(h)].selling_price
            /\ e.mrp = h[Len(h)].mrp
            /\ e.discount_pct = h[Len(h)].discount_pct
            /\ e.last_updated = h[Len(h)].timestamp

\* C13: get_prices answers with total = the number of matching series and
\* with min(total, limit) entries, each the summary of a different matching
\* series (latest observation, metadata, observation count, no history).
C13_OneSummaryPerMatchingSeries ==
    PricesJustRead =>
        /\ result.total = Cardinality(Matching)
        /\ Len(result.results) = Min(Cardinality(Matching), result.limit)
        /\ Len(result.results) <= result.limit
        /\ \A a \in 1..Len(result.results) :
              /\ \E j \in Matching : Summarises(result.results[a], j)
              /\ \A b \in 1..Len(result.results) :
                    a # b => result.results[a].key # result.results[b].key

\* two series match a query with limit 1: one entry returned, total is 2
C13_Witness ==
    /\ PricesJustRead
    /\ result.limit = 1
    /\ result.total = 2
    /\ Len(result.results) = 1
    /\ result.results[1].price_points >= 1

-----------------------------------------------------------------------------
(* The food filter of the Zepto catalogue (src/scrapers/filter_food_products.py) *)

\* lines 12-78
FOOD_KEYWORDS == <<
    <<"a", "t", "t", "a">>, <<"f", "l", "o", "u", "r">>, <<"r", "i", "c", "e">>,
    <<"w", "h", "e", "a", "t">>, <<"d", "a", "l">>, <<"p", "u", "l", "s", "e">>,
    <<"l", "e", "n", "t", "i", "l">>, <<"c", "h", "a", "n", "a">>, <<"m", "o", "o", "n", "g">>,
    <<"t", "o", "o", "r">>, <<"u", "r", "a", "d">>, <<"m", "a", "s", "o", "o", "r">>,
    <<"r", "a", "j", "m", "a">>, <<"c", "h", "o", "l", "e">>, <<"b", "e", "s", "a", "n">>,
    <<"s", "o", "o", "j", "i">>, <<"m", "a", "i", "d", "a">>, <<"p", "o", "h", "a">>,
    <<"o", "a", "t", "s">>, <<"m", "u", "e", "s", "l", "i">>, <<"c", "e", "r", "e", "a", "l">>,
    <<"c", "o", "r", "n", "f", "l", "a", "k", "e", "s">>, <<"m", "i", "l", "l", "e", "t">>,
    <<"r", "a", "g", "i">>, <<"j", "o", "w", "a", "r">>, <<"b", "a", "j", "r", "a">>,
    <<"o", "i", "l">>, <<"g", "h", "e", "e">>, <<"b", "u", "t", "t", "e", "r">>,
    <<"m", "a", "r", "g", "a", "r", "i", "n", "e">>,
    <<"v", "a", "n", "a", "s", "p", "a", "t", "i">>, <<"m", "i", "l", "k">>, <<"c", "u", "r", "d">>,
    <<"y", "o", "g", "u", "r", "t">>, <<"y", "o", "g", "h", "u", "r", "t">>,
    <<"p", "a", "n", "e", "e", "r">>, <<"c", "h", "e", "e", "s", "e">>, <<"c", "r", "e", "a", "m">>,
    <<"l", "a", "s", "s", "i">>, <<"b", "u", "t", "t", "e", "r", "m", "i", "l", "k">>,
    <<"c", "h", "a", "a", "c", "h">>, <<"k", "h", "o", "a">>, <<"m", "a", "w", "a">>,
    <<"s", "h", "r", "i", "k", "h", "a", "n", "d">>, <<"b", "r", "e", "a", "d">>, <<"p", "a", "v">>,
    <<"b", "u", "n">>, <<"c", "a", "k", "e">>, <<"p", "a", "s", "t", "r", "y">>,
    <<"c", "o", "o", "k", "i", "e">>, <<"b", "i", "s", "c", "u", "i", "t">>, <<"r", "u", "s", "k">>,
    <<"k", "h", "a", "r", "i">>, <<"t", "o", "a", "s", "t">>,
    <<"c", "r", "o", "i", "s", "s", "a", "n", "t">>, <<"m", "u", "f", "f", "i", "n">>,
    <<"d", "o", "n", "u", "t">>, <<"b", "r", "o", "w", "n", "i", "e">>, <<"f", "r", "u", "i", "t">>,
    <<"v", "e", "g", "e", "t", "a", "b", "l", "e">>, <<"s", "a", "b", "j", "i">>,
    <<"s", "a", "b", "z", "i">>, <<"a", "p", "p", "l", "e">>, <<"b", "a", "n", "a", "n", "a">>,
    <<"o", "r", "a", "n", "g", "e">>, <<"m", "a", "n", "g", "o">>, <<"g", "r", "a", "p", "e">>,
    <<"p", "o", "m", "e", "g", "r", "a", "n", "a", "t", "e">>, <<"p", "a", "p", "a", "y", "a">>,
    <<"g", "u", "a", "v", "a">>, <<"w", "a", "t", "e", "r", "m", "e", "l", "o", "n">>,
    <<"p", "i", "n", "e", "a", "p", "p", "l", "e">>, <<"k", "i", "w", "i">>,
    <<"t", "o", "m", "a", "t", "o">>, <<"p", "o", "t", "a", "t", "o">>, <<"o", "n", "i", "o", "n">>,
    <<"c", "a", "r", "r", "o", "t">>, <<"c", "a", "b", "b", "a", "g", "e">>,
    <<"c", "a", "u", "l", "i", "f", "l", "o", "w", "e", "r">>,
    <<"s", "p", "i", "n", "a", "c", "h">>, <<"p", "a", "l", "a", "k">>, <<"m", "e", "t", "h", "i">>,
    <<"b", "h", "i", "n", "d", "i">>, <<"b", "r", "i", "n", "j", "a", "l">>,
    <<"c", "a", "p", "s", "i", "c", "u", "m">>, <<"c", "u", "c", "u", "m", "b", "e", "r">>,
    <<"b", "e", "a", "n", "s">>, <<"p", "e", "a", "s">>, <<"c", "o", "r", "n">>,
    <<"m", "u", "s", "h", "r", "o", "o", "m">>, <<"g", "i", "n", "g", "e", "r">>,
    <<"g", "a", "r", "l", "i", "c">>, <<"l", "e", "m", "o", "n">>,
    <<"c", "o", "c", "o", "n", "u", "t">>, <<"c", "h", "i", "c", "k", "e", "n">>,
    <<"m", "u", "t", "t", "o", "n">>, <<"l", "a", "m", "b">>, <<"f", "i", "s", "h">>,
    <<"p", "r", "a", "w", "n", "s">>, <<"s", "h", "r", "i", "m", "p">>, <<"e", "g", "g">>,
    <<"m", "e", "a", "t">>, <<"s", "a", "u", "s", "a", "g", "e">>, <<"s", "a", "l", "a", "m", "i">>,
    <<"b", "a", "c", "o", "n">>, <<"h", "a", "m">>, <<"k", "e", "b", "a", "b">>,
    <<"t", "i", "k", "k", "a">>, <<"s", "e", "e", "k", "h">>, <<"m", "a", "s", "a", "l", "a">>,
    <<"s", "p", "i", "c", "e">>, <<"t", "u", "r", "m", "e", "r", "i", "c">>,
    <<"h", "a", "l", "d", "i">>, <<"c", "h", "i", "l", "l", "i">>, <<"m", "i", "r", "c", "h">>,
    <<"p", "e", "p", "p", "e", "r">>, <<"c", "u", "m", "i", "n">>, <<"j", "e", "e", "r", "a">>,
    <<"c", "o", "r", "i", "a", "n", "d", "e", "r">>, <<"d", "h", "a", "n", "i", "a">>,
    <<"c", "a", "r", "d", "a", "m", "o", "m">>, <<"e", "l", "a", "i", "c", "h", "i">>,
    <<"c", "l", "o", "v", "e">>, <<"c", "i", "n", "n", "a", "m", "o", "n">>,
    <<"d", "a", "l", "c", "h", "i", "n", "i">>,
    <<"g", "a", "r", "a", "m", " ", "m", "a", "s", "a", "l", "a">>,
    <<"b", "i", "r", "y", "a", "n", "i", " ", "m", "a", "s", "a", "l", "a">>,
    <<"c", "u", "r", "r", "y">>, <<"a", "l", "m", "o", "n", "d">>, <<"b", "a", "d", "a", "m">>,
    <<"c", "a", "s", "h", "e", "w">>, <<"k", "a", "j", "u">>, <<"w", "a", "l", "n", "u", "t">>,
    <<"a", "k", "h", "r", "o", "t">>, <<"p", "i", "s", "t", "a", "c", "h", "i", "o">>,
    <<"p", "i", "s", "t", "a">>, <<"r", "a", "i", "s", "i", "n">>,
    <<"k", "i", "s", "h", "m", "i", "s", "h">>, <<"d", "a", "t", "e", "s">>,
    <<"k", "h", "a", "j", "o", "o", "r">>, <<"f", "i", "g">>, <<"a", "n", "j", "e", "e", "r">>,
    <<"p", "e", "a", "n", "u", "t">>, <<"g", "r", "o", "u", "n", "d", "n", "u", "t">>,
    <<"c", "h", "i", "p", "s">>, <<"n", "a", "m", "k", "e", "e", "n">>,
    <<"b", "h", "u", "j", "i", "a">>, <<"m", "i", "x", "t", "u", "r", "e">>,
    <<"c", "h", "a", "k", "l", "i">>, <<"m", "u", "r", "u", "k", "k", "u">>,
    <<"m", "a", "t", "h", "r", "i">>, <<"p", "a", "p", "a", "d">>, <<"f", "r", "y", "u", "m", "s">>,
    <<"k", "u", "r", "k", "u", "r", "e">>, <<"n", "a", "c", "h", "o", "s">>,
    <<"p", "o", "p", "c", "o", "r", "n">>, <<"m", "a", "k", "h", "a", "n", "a">>,
    <<"c", "h", "o", "c", "o", "l", "a", "t", "e">>, <<"c", "a", "n", "d", "y">>,
    <<"t", "o", "f", "f", "e", "e">>, <<"m", "i", "t", "h", "a", "i">>, <<"s", "w", "e", "e", "t">>,
    <<"l", "a", "d", "o", "o">>, <<"b", "a", "r", "f", "i">>, <<"h", "a", "l", "w", "a">>,
    <<"j", "a", "l", "e", "b", "i">>, <<"g", "u", "l", "a", "b", " ", "j", "a", "m", "u", "n">>,
    <<"r", "a", "s", "g", "u", "l", "l", "a">>, <<"s", "a", "n", "d", "e", "s", "h">>,
    <<"p", "e", "d", "a">>, <<"t", "e", "a">>, <<"c", "h", "a", "i">>,
    <<"c", "o", "f", "f", "e", "e">>, <<"j", "u", "i", "c", "e">>, <<"d", "r", "i", "n", "k">>,
    <<"s", "o", "d", "a">>, <<"c", "o", "l", "a">>, <<"l", "e", "m", "o", "n", "a", "d", "e">>,
    <<"s", "q", "u", "a", "s", "h">>, <<"s", "h", "a", "r", "b", "a", "t">>,
    <<"c", "o", "c", "o", "n", "u", "t", " ", "w", "a", "t", "e", "r">>,
    <<"e", "n", "e", "r", "g", "y", " ", "d", "r", "i", "n", "k">>,
    <<"h", "e", "a", "l", "t", "h", " ", "d", "r", "i", "n", "k">>,
    <<"n", "o", "o", "d", "l", "e", "s">>, <<"p", "a", "s", "t", "a">>, <<"m", "a", "g", "g", "i">>,
    <<"m", "a", "c", "a", "r", "o", "n", "i">>, <<"s", "o", "u", "p">>, <<"s", "a", "u", "c", "e">>,
    <<"k", "e", "t", "c", "h", "u", "p">>, <<"m", "a", "y", "o", "n", "n", "a", "i", "s", "e">>,
    <<"p", "i", "c", "k", "l", "e">>, <<"a", "c", "h", "a", "r">>,
    <<"c", "h", "u", "t", "n", "e", "y">>, <<"j", "a", "m">>, <<"h", "o", "n", "e", "y">>,
    <<"s", "p", "r", "e", "a", "d">>,
    <<"r", "e", "a", "d", "y", " ", "t", "o", " ", "e", "a", "t">>,
    <<"r", "e", "a", "d", "y", " ", "t", "o", " ", "c", "o", "o", "k">>,
    <<"i", "n", "s", "t", "a", "n", "t">>, <<"f", "r", "o", "z", "e", "n">>,
    <<"p", "a", "r", "a", "t", "h", "a">>, <<"r", "o", "t", "i">>, <<"s", "a", "m", "o", "s", "a">>,
    <<"s", "p", "r", "i", "n", "g", " ", "r", "o", "l", "l">>, <<"m", "o", "m", "o", "s">>,
    <<"p", "i", "z", "z", "a">>, <<"b", "u", "r", "g", "e", "r">>, <<"s", "a", "l", "t">>,
    <<"s", "u", "g", "a", "r">>, <<"j", "a", "g", "g", "e", "r", "y">>, <<"g", "u", "r">>,
    <<"v", "i", "n", "e", "g", "a", "r">>, <<"s", "o", "y", " ", "s", "a", "u", "c", "e">>,
    <<"m", "u", "s", "t", "a", "r", "d">>, <<"b", "a", "b", "y", " ", "f", "o", "o", "d">>,
    <<"c", "e", "r", "e", "l", "a", "c">>, <<"f", "o", "r", "m", "u", "l", "a">>,
    <<"p", "r", "o", "t", "e", "i", "n">>, <<"w", "h", "e", "y">>,
    <<"s", "u", "p", "p", "l", "e", "m", "e", "n", "t">>,
    <<"n", "u", "t", "r", "i", "t", "i", "o", "n">>, <<"d", "i", "e", "t">>,
    <<"o", "r", "g", "a", "n", "i", "c">>,
    <<"g", "l", "u", "t", "e", "n", " ", "f", "r", "e", "e">>,
    <<"i", "c", "e", " ", "c", "r", "e", "a", "m">>, <<"k", "u", "l", "f", "i">>,
    <<"f", "r", "o", "z", "e", "n", " ", "d", "e", "s", "s", "e", "r", "t">>,
    <<"g", "e", "l", "a", "t", "o">>, <<"s", "o", "r", "b", "e", "t">> >>

\* lines 81-100
EXCLUDE_KEYWORDS == <<
    <<"s", "h", "i", "r", "t">>, <<"p", "a", "n", "t">>, <<"j", "e", "a", "n", "s">>,
    <<"d", "r", "e", "s", "s">>, <<"s", "a", "r", "e", "e">>, <<"k", "u", "r", "t", "i">>,
    <<"t", "o", "p">>, <<"b", "o", "t", "t", "o", "m">>, <<"s", "h", "o", "e">>,
    <<"s", "a", "n", "d", "a", "l">>, <<"s", "l", "i", "p", "p", "e", "r">>,
    <<"f", "o", "o", "t", "w", "e", "a", "r">>, <<"s", "n", "e", "a", "k", "e", "r">>,
    <<"p", "h", "o", "n", "e">>, <<"m", "o", "b", "i", "l", "e">>, <<"l", "a", "p", "t", "o", "p">>,
    <<"t", "a", "b", "l", "e", "t">>, <<"c", "h", "a", "r", "g", "e", "r">>,
    <<"c", "a", "b", "l", "e">>, <<"e", "a", "r", "p", "h", "o", "n", "e">>,
    <<"h", "e", "a", "d", "p", "h", "o", "n", "e">>, <<"s", "p", "e", "a", "k", "e", "r">>,
    <<"c", "a", "m", "e", "r", "a">>, <<"w", "a", "t", "c", "h">>,
    <<"s", "m", "a", "r", "t", "w", "a", "t", "c", "h">>, <<"p", "o", "s", "t", "e", "r">>,
    <<"f", "r", "a", "m", "e">>, <<"d", "e", "c", "o", "r">>, <<"c", "u", "r", "t", "a", "i", "n">>,
    <<"b", "e", "d", "s", "h", "e", "e", "t">>, <<"p", "i", "l", "l", "o", "w">>,
    <<"m", "a", "t", "t", "r", "e", "s", "s">>, <<"t", "o", "y">>, <<"g", "a", "m", "e">>,
    <<"p", "u", "z", "z", "l", "e">>, <<"d", "o", "l", "l">>, <<"c", "a", "r">>,
    <<"b", "i", "k", "e">>, <<"c", "o", "s", "m", "e", "t", "i", "c">>,
    <<"m", "a", "k", "e", "u", "p">>, <<"l", "i", "p", "s", "t", "i", "c", "k">>,
    <<"f", "o", "u", "n", "d", "a", "t", "i", "o", "n">>, <<"m", "a", "s", "c", "a", "r", "a">>,
    <<"e", "y", "e", "l", "i", "n", "e", "r">>, <<"s", "h", "a", "m", "p", "o", "o">>,
    <<"c", "o", "n", "d", "i", "t", "i", "o", "n", "e", "r">>, <<"s", "o", "a", "p">>,
    <<"b", "o", "d", "y", " ", "w", "a", "s", "h">>,
    <<"f", "a", "c", "e", " ", "w", "a", "s", "h">>, <<"c", "r", "e", "a", "m">>,
    <<"l", "o", "t", "i", "o", "n">>, <<"s", "e", "r", "u", "m">>,
    <<"s", "u", "n", "s", "c", "r", "e", "e", "n">>,
    <<"d", "e", "o", "d", "o", "r", "a", "n", "t">>, <<"p", "e", "r", "f", "u", "m", "e">>,
    <<"f", "r", "a", "g", "r", "a", "n", "c", "e">>, <<"d", "i", "a", "p", "e", "r">>,
    <<"w", "i", "p", "e", "s">>, <<"s", "a", "n", "i", "t", "a", "r", "y">>, <<"p", "a", "d">>,
    <<"t", "a", "m", "p", "o", "n">>, <<"d", "e", "t", "e", "r", "g", "e", "n", "t">>,
    <<"c", "l", "e", "a", "n", "e", "r">>, <<"d", "i", "s", "h", "w", "a", "s", "h">>,
    <<"m", "o", "p">>, <<"b", "r", "o", "o", "m">>, <<"b", "u", "c", "k", "e", "t">>,
    <<"m", "e", "d", "i", "c", "i", "n", "e">>, <<"t", "a", "b", "l", "e", "t">>,
    <<"c", "a", "p", "s", "u", "l", "e">>, <<"s", "y", "r", "u", "p">>,
    <<"o", "i", "n", "t", "m", "e", "n", "t">>, <<"b", "a", "n", "d", "a", "g", "e">>,
    <<"l", "e", "g", "g", "i", "n", "g">>, <<"s", "h", "o", "r", "t", "s">>,
    <<"t", "r", "a", "c", "k", "p", "a", "n", "t", "s">>, <<"h", "o", "o", "d", "i", "e">>,
    <<"s", "w", "e", "a", "t", "s", "h", "i", "r", "t">>, <<"j", "a", "c", "k", "e", "t">>,
    <<"t", "-", "s", "h", "i", "r", "t">>, <<"t", "s", "h", "i", "r", "t">>, <<"p", "o", "l", "o">>,
    <<"i", "n", "n", "e", "r", "w", "e", "a", "r">>,
    <<"u", "n", "d", "e", "r", "w", "e", "a", "r">>, <<"b", "r", "a">>, <<"b", "r", "i", "e", "f">>,
    <<"j", "e", "w", "e", "l", "l", "e", "r", "y">>, <<"j", "e", "w", "e", "l", "r", "y">>,
    <<"n", "e", "c", "k", "l", "a", "c", "e">>, <<"e", "a", "r", "r", "i", "n", "g">>,
    <<"b", "r", "a", "c", "e", "l", "e", "t">>, <<"r", "i", "n", "g">>, <<"b", "a", "g">>,
    <<"b", "a", "c", "k", "p", "a", "c", "k">>, <<"h", "a", "n", "d", "b", "a", "g">>,
    <<"w", "a", "l", "l", "e", "t">>, <<"p", "u", "r", "s", "e">>,
    <<"l", "u", "g", "g", "a", "g", "e">>, <<"b", "o", "o", "k">>,
    <<"n", "o", "t", "e", "b", "o", "o", "k">>, <<"p", "e", "n">>, <<"p", "e", "n", "c", "i", "l">>,
    <<"s", "t", "a", "t", "i", "o", "n", "e", "r", "y">>, <<"o", "f", "f", "i", "c", "e">>,
    <<"i", "p", "h", "o", "n", "e">>, <<"s", "a", "m", "s", "u", "n", "g">>, <<"c", "a", "s", "e">>,
    <<"c", "o", "v", "e", "r">>, <<"p", "r", "o", "t", "e", "c", "t", "o", "r">>,
    <<"t", "e", "m", "p", "e", "r", "e", "d">> >>

\* "for kw in kws: if kw in text: return ...": the position of the keyword
\* the loop returns at, or 0 when the loop runs to its end
FirstKeywordIn(kws, text) ==
    LET hits == {j \in 1..Len(kws) : Contains(kws[j], text)}
    IN IF hits = {} THEN 0 ELSE CHOOSE j \in hits : \A m \in hits : j <= m

\* the inclusion list is consulted before the exclusion list
is_food_productInclusionFirst(product) ==
    LET name == Lower(GetOr(product, "name", <<>>))
        slug == Lower(GetOr(product, "slug", <<>>))
        text == name \o <<" ">> \o slug
    IN IF FirstKeywordIn(FOOD_KEYWORDS, text) # 0 THEN TRUE
       ELSE FALSE

\* lines 102-118
is_food_product(product) ==
    LET name == Lower(GetOr(product, "name", <<>>))
        slug == Lower(GetOr(product, "slug", <<>>))
        text == name \o <<" ">> \o slug
    IN IF FirstKeywordIn(EXCLUDE_KEYWORDS, text) # 0 THEN FALSE
       ELSE IF FirstKeywordIn(FOOD_KEYWORDS, text) # 0 THEN TRUE
       ELSE FALSE

\* the function under way returns v
Returns(v) ==
    /\ ~returned.done
    /\ returned' = [done |-> TRUE, value |-> v]
    /\ UNCHANGED <<PRICE_DATA, lists, file, clock, pc, req, i, ingested, timestamp,
                   held, sliced, reply, result, nsub, since, call, frame,
                   disk, catalogue>>

\* the state in which call c is about to run
Called(c) ==
    /\ BootStore(NoFile)
    /\ call = c
    /\ returned = NotReturned
    /\ frame = NoFrame
    /\ disk = NoDisk
    /\ catalogue = NotLoaded

-----------------------------------------------------------------------------
(* SpecFilter: is_food_product is applied to one product of the catalogue. *)

MaxNameWords == 2      \* words in a product name in SpecFilter

\* words of product names, as the catalogue capitalises them
FilterWords == {<<"R", "i", "c", "e">>, <<"T", "e", "m", "p", "e", "r", "e", "d">>, <<"B", "a", "b", "y">>, <<"C", "r", "e", "a", "m">>, <<"X", "y", "z">>}

\* the names of up to n words
RECURSIVE NamesOf(_)
NamesOf(n) ==
    IF n = 0 THEN {<<>>}
    ELSE NamesOf(n - 1) \cup {w : w \in FilterWords}
           \cup {a \o <<" ">> \o w : a \in NamesOf(n - 1) \ {<<>>}, w \in FilterWords}

FilterSlugs == {<<"f", "o", "o", "d">>, <<"g", "l", "a", "s", "s", "-", "1", "p", "c">>, <<"B", "A", "S", "M", "A", "T", "I">>}

\* products with a name and a slug, with a name only, and with no name
FilterProducts ==
    {[name |-> a, slug |-> s] : a \in NamesOf(MaxNameWords), s \in FilterSlugs}
      \cup {[name |-> a] : a \in NamesOf(MaxNameWords)}
      \cup {[slug |-> s] : s \in FilterSlugs}

IsFoodProduct ==
    /\ call.fn = "is_food_product"
    /\ Returns(is_food_product(call.product))

InitFilter == \E p \in FilterProducts : Called([fn |-> "is_food_product", product |-> p])

NextFilter == IsFoodProduct

SpecFilter == InitFilter /\ [][NextFilter]_vars

-----------------------------------------------------------------------------
(* C14 *)

\* the text the keywords are looked up in: name and slug of the product
\* under classification, lower-cased and joined by a space
FilterText ==
    Lower(GetOr(call.product, "name", <<>>)) \o <<" ">>
        \o Lower(GetOr(call.product, "slug", <<>>))

\* some keyword of the list occurs in the text
SomeIn(kws) == \E j \in 1..Len(kws) : Contains(kws[j], FilterText)

Classified == call.fn = "is_food_product" /\ returned.done

\* C14: a product is classified as food exactly when its text contains no
\* exclusion keyword and at least one inclusion keyword.
C14_FoodIffIncludedAndNotExcluded ==
    Classified =>
        (returned.value <=> (~SomeIn(EXCLUDE_KEYWORDS) /\ SomeIn(FOOD_KEYWORDS)))

\* "Rice Tempered" holds the inclusion keyword "rice" and the exclusion
\* keyword "tempered" and is classified as non-food
C14_Witness ==
    /\ Classified
    /\ call.product = [name |-> <<"R", "i", "c", "e", " ", "T", "e", "m", "p", "e", "r", "e", "d">>]
    /\ SomeIn(FOOD_KEYWORDS) /\ SomeIn(EXCLUDE_KEYWORDS)
    /\ returned.value = FALSE

-----------------------------------------------------------------------------
(* parse_weight_grams of the advanced search (src/api/main.py, lines 209-222) *)

Digits == <<"0", "1", "2", "3", "4", "5", "6", "7", "8", "9">>

\* [0-9]
DigitChars == {Digits[d] : d \in 1..10}

IsDigit(c) == c \in DigitChars

DigitValue(c) == (CHOOSE d \in 1..10 : Digits[d] = c) - 1

\* the value of a run of digits
RECURSIVE DigitsValue(_)
DigitsValue(s) == IF s = <<>> THEN 0 ELSE 10 * DigitsValue(SubSeq(s, 1, Len(s) - 1)) + DigitValue(s[Len(s)])

\* s[k:]
From(s, k) == SubSeq(s, k, Len(s))

\* s.startswith(p)
StartsWith(s, p) == Len(p) <= Len(s) /\ SubSeq(s, 1, Len(p)) = p

\* the length of the longest prefix of s made of characters of the class
\* [chars]
Run(s, chars) ==
    LET ends == {k \in 0..Len(s) : \A j \in 1..k : s[j] \in chars}
    IN CHOOSE k \in ends : \A m \in ends : m <= k

\* the same for the class [^chars]
RunExcept(s, chars) ==
    LET ends == {k \in 0..Len(s) : \A j \in 1..k : s[j] \notin chars}
    IN CHOOSE k \in ends : \A m \in ends : m <= k

\* [\d.]
IsDigitOrDot(c) == IsDigit(c) \/ c = "."

\* \s
Whitespace == {" ", "\t", "\n", "\r"}

\* the alternatives of (kg|g|gm|gram|ml|l|litre), which the regex tries in this order
WeightUnits == <<<<"k", "g">>, <<"g">>, <<"g", "m">>, <<"g", "r", "a", "m">>, <<"m", "l">>, <<"l">>, <<"l", "i", "t", "r", "e">>>>

\* the first of the alternatives that s starts with, or None
FirstPrefix(alts, s) ==
    LET hits == {j \in 1..Len(alts) : StartsWith(s, alts[j])}
    IN IF hits = {} THEN None
       ELSE alts[CHOOSE j \in hits : \A m \in hits : j <= m]

\* the alternative the regex group takes at the start of s
UnitAt(s) == FirstPrefix(WeightUnits, s)

\* float() accepts digits with at most one dot and at least one digit
IsFloatText(s) ==
    /\ \E j \in 1..Len(s) : IsDigit(s[j])
    /\ Cardinality({j \in 1..Len(s) : s[j] = "."}) <= 1
    /\ \A j \in 1..Len(s) : IsDigitOrDot(s[j])

\* decimal places the model keeps of a float: values are counted in thousandths
Places == 3

RECURSIVE Pow10(_)
Pow10(n) == IF n = 0 THEN 1 ELSE 10 * Pow10(n - 1)

\* float(s), in thousandths
Float(s) ==
    LET dots == {j \in 1..Len(s) : s[j] = "."}
        dot == IF dots = {} THEN Len(s) + 1 ELSE CHOOSE j \in dots : TRUE
        whole == SubSeq(s, 1, dot - 1)
        frac == SubSeq(s, dot + 1, Len(s))
    IN DigitsValue(whole) * Pow10(Places) + DigitsValue(frac) * Pow10(Places - Len(frac))

NoneValue == [kind |-> "None"]
ValueError == [kind |-> "ValueError"]
Number(thousandths) == [kind |-> "float", thousandths |-> thousandths]

\* lines 209-222
parse_weight_grams(w) ==
    IF ~Truthy(w) THEN NoneValue
    ELSE LET lw == Lower(w)
             n == Run(lw, DigitChars \cup {"."})
             rest == From(lw, n + 1)
             unit == UnitAt(From(rest, Run(rest, Whitespace) + 1))
         IN IF n = 0 \/ unit = None THEN NoneValue
            ELSE IF ~IsFloatText(SubSeq(lw, 1, n)) THEN ValueError
            ELSE LET val == Float(SubSeq(lw, 1, n))
                 IN IF unit = <<"k", "g">> THEN Number(val * 1000)
                    ELSE IF unit \in {<<"l">>, <<"l", "i", "t", "r", "e">>}
                           THEN Number(val * 1000)
                    ELSE Number(val)

-----------------------------------------------------------------------------
(* SpecWeight: parse_weight_grams is applied to the weight of one product. *)

MaxGap == 1            \* spaces between the number and what follows it in SpecWeight

WeightNumbers == {<<"1">>, <<"2", "5", "0">>, <<"0">>, <<"2", ".", "5">>, <<".", "5">>, <<"1", ".">>, <<".">>, <<"1", ".", "2", ".", "3">>, <<>>}

WeightTails == {<<"k", "g">>, <<"g">>, <<"g", "m">>, <<"g", "r", "a", "m">>, <<"m", "l">>, <<"l">>, <<"l", "i", "t", "r", "e">>, <<"L">>, <<"K", "g">>, <<"l", "b">>, <<"p", "c">>, <<>>, <<"k", "g", " ", "p", "a", "c", "k">>}

\* n spaces
Spaces(n) == [j \in 1..n |-> " "]

\* the "weight" of a product: absent, or a text
Weights ==
    {None} \cup {<<" ">> \o <<"1">> \o <<"k", "g">>}
      \cup {n \o Spaces(g) \o t : n \in WeightNumbers, g \in 0..MaxGap, t \in WeightTails}

ParseWeightGrams ==
    /\ call.fn = "parse_weight_grams"
    /\ Returns(parse_weight_grams(call.w))

InitWeight == \E w \in Weights : Called([fn |-> "parse_weight_grams", w |-> w])

NextWeight == ParseWeightGrams

SpecWeight == InitWeight /\ [][NextWeight]_vars

-----------------------------------------------------------------------------
(* C15 *)

\* the units of the claim and what one of each weighs in grams
GramsPerUnit == <<[unit |-> <<"k", "g">>, grams |-> 1000],
                  [unit |-> <<"l">>, grams |-> 1000],
                  [unit |-> <<"l", "i", "t", "r", "e">>, grams |-> 1000],
                  [unit |-> <<"g">>, grams |-> 1],
                  [unit |-> <<"g", "m">>, grams |-> 1],
                  [unit |-> <<"g", "r", "a", "m">>, grams |-> 1],
                  [unit |-> <<"m", "l">>, grams |-> 1]>>

\* the text under conversion, letter case aside
WeightText == IF call.w = None THEN <<>> ELSE Lower(call.w)

\* its leading run of digits and dots, and what follows the spaces after it
LeadingNumber == SubSeq(WeightText, 1, Run(WeightText, DigitChars \cup {"."}))
AfterNumber ==
    LET rest == From(WeightText, Len(LeadingNumber) + 1)
    IN From(rest, Run(rest, Whitespace) + 1)

\* the unit words the text continues with after its number
UnitsRead ==
    {j \in 1..Len(GramsPerUnit) :
        /\ StartsWith(AfterNumber, GramsPerUnit[j].unit)
        /\ LET after == From(AfterNumber, Len(GramsPerUnit[j].unit) + 1)
           IN after = <<>> \/ ~IsLetter(after[1])}

Converted == call.fn = "parse_weight_grams" /\ returned.done

\* C15: a text that starts with a number followed by a unit is converted to
\* the number times the grams of that unit; any other text, and an absent
\* or empty text, gives None.
C15_WeightInGrams ==
    Converted =>
        IF IsFloatText(LeadingNumber) /\ UnitsRead # {}
          THEN \E j \in UnitsRead :
                  returned.value = Number(Float(LeadingNumber) * GramsPerUnit[j].grams)
          ELSE returned.value = NoneValue

-----------------------------------------------------------------------------
(* The sitemap scraper of the Zepto catalogue (src/scrapers/zepto_scraper.py) *)

UpperChar(c) ==
    IF \E u \in DOMAIN LowerCase : LowerCase[u] = c
      THEN CHOOSE u \in DOMAIN LowerCase : LowerCase[u] = c
      ELSE c

\* s.replace(a, b) for single characters a and b
Replace(s, a, b) == [j \in 1..Len(s) |-> IF s[j] = a THEN b ELSE s[j]]

\* s.title(): a letter after a letter is lower-cased, any other letter upper-cased
Title(s) ==
    [j \in 1..Len(s) |->
        IF ~IsLetter(s[j]) THEN s[j]
        ELSE IF j > 1 /\ IsLetter(s[j - 1]) THEN LowerChar(s[j])
        ELSE UpperChar(s[j])]

\* s[p:] starts with lit (positions count from 1)
LitAt(s, p, lit) == StartsWith(From(s, p), lit)

\* [a-f0-9-]
IdChars == DigitChars \cup {"a", "b", "c", "d", "e", "f", "-"}

\* the parts of a pattern after its ".*": a literal text, or a group
\* ([chars]+) or ([^chars]+)
Lit(text) == [lit |-> text]
Group(chars) == [chars |-> chars, negated |-> FALSE]
GroupExcept(chars) == [chars |-> chars, negated |-> TRUE]

\* /pn/([^/]+)/pvid/([a-f0-9-]+), line 44
ProductPattern ==
    <<Lit(<<"/", "p", "n", "/">>), GroupExcept({"/"}), Lit(<<"/", "p", "v", "i", "d", "/">>), Group(IdChars)>>

\* /cn/([^/]+)/([^/]+)/cid/([a-f0-9-]+)/scid/([a-f0-9-]+), line 70
CategoryPattern ==
    <<Lit(<<"/", "c", "n", "/">>), GroupExcept({"/"}), Lit(<<"/">>), GroupExcept({"/"}),
      Lit(<<"/", "c", "i", "d", "/">>), Group(IdChars),
      Lit(<<"/", "s", "c", "i", "d", "/">>), Group(IdChars)>>

\* /brand/([^/]+)/([a-f0-9-]+), line 88
BrandPattern ==
    <<Lit(<<"/", "b", "r", "a", "n", "d", "/">>), GroupExcept({"/"}), Lit(<<"/">>), Group(IdChars)>>

NoMatch == [ok |-> FALSE]

\* the match of the parts at position p of the url, with its groups in
\* order. A group takes the longest run of its characters: what follows a
\* group in these patterns never starts with a character of the group, so
\* that giving characters back cannot make a match.
RECURSIVE GroupsFrom(_, _, _)
GroupsFrom(parts, url, p) ==
    IF parts = <<>> THEN [ok |-> TRUE, groups |-> <<>>]
    ELSE IF "lit" \in DOMAIN parts[1]
      THEN IF LitAt(url, p, parts[1].lit)
             THEN GroupsFrom(Tail(parts), url, p + Len(parts[1].lit))
             ELSE NoMatch
    ELSE LET n == IF parts[1].negated THEN RunExcept(From(url, p), parts[1].chars)
                  ELSE Run(From(url, p), parts[1].chars)
             rest == GroupsFrom(Tail(parts), url, p + n)
         IN IF n = 0 \/ ~rest.ok THEN NoMatch
            ELSE [ok |-> TRUE, groups |-> <<SubSeq(url, p, p + n - 1)>> \o rest.groups]

\* the positions at which the part of a pattern after ".*" matches
MatchesAt(url, parts) == {p \in 1..Len(url) : GroupsFrom(parts, url, p).ok}

\* re.match(r".*<rest>", url): ".*" is greedy, so of all the places where
\* the rest matches the last one is taken; the groups, <<>> when there is none
LastMatch(url, parts) ==
    LET ps == MatchesAt(url, parts)
    IN IF ps = {} THEN <<>>
       ELSE GroupsFrom(parts, url, CHOOSE p \in ps : \A m \in ps : m <= p).groups

\* the alternatives of the weight pattern at line 55, in the order the regex tries them
SlugUnits == <<<<"k", "g">>, <<"g">>, <<"m", "l">>,
               <<"l">>, <<"l", "i", "t", "r", "e">>, <<"l", "i", "t", "e", "r">>,
               <<"g", "m">>, <<"g", "r", "a", "m">>, <<"p", "a", "c", "k">>,
               <<"p", "i", "e", "c", "e">>, <<"p", "c">>, <<"c", "o", "u", "n", "t">>,
               <<"u", "n", "i", "t">>>>

\* the length of the match of (?:\.\d+)? at position q of s
FractionAt(s, q) ==
    LET fd == IF LitAt(s, q, <<".">>) THEN Run(From(s, q + 1), DigitChars) ELSE 0
    IN IF fd > 0 THEN 1 + fd ELSE 0

\* the length of the match of \s*(kg|g|...) at position q of s, 0 if none
UnitAfter(s, q) ==
    LET sp == Run(From(s, q), Whitespace)
        unit == FirstPrefix(SlugUnits, Lower(From(s, q + sp)))
    IN IF unit = None THEN 0 ELSE sp + Len(unit)

\* the length of the match of the weight pattern at position p of s, 0 if none
WeightAt(s, p) ==
    LET d == Run(From(s, p), DigitChars)
        n == d + FractionAt(s, p + d)
        u == UnitAfter(s, p + n)
    IN IF d = 0 \/ u = 0 THEN 0 ELSE n + u

\* re.search(weight_pattern, s, re.I): group(0) of the leftmost match, or None
SearchWeight(s) ==
    LET ps == {p \in 1..Len(s) : WeightAt(s, p) > 0}
        p == CHOOSE p \in ps : \A m \in ps : p <= m
    IN IF ps = {} THEN None ELSE SubSeq(s, p, p + WeightAt(s, p) - 1)

\* the first place where the pattern matches is taken, not the last
parse_product_urlLeftmost(url) ==
    LET ps == MatchesAt(url, ProductPattern)
        match == IF ps = {} THEN <<>>
                 ELSE GroupsFrom(ProductPattern, url,
                                 CHOOSE p \in ps : \A m \in ps : p <= m).groups
        slug == match[1]
        pvid == match[2]
    IN IF match = <<>> THEN NoneValue
       ELSE [product_variant_id |-> pvid,
             slug |-> slug,
             name |-> Title(unquote(Replace(slug, "-", " "))),
             url |-> url,
             weight |-> SearchWeight(Replace(slug, "-", " "))]

\* lines 40-64
parse_product_url(url) ==
    LET match == LastMatch(url, ProductPattern)
        slug == match[1]
        pvid == match[2]
    IN IF match = <<>> THEN NoneValue
       ELSE [product_variant_id |-> pvid,
             slug |-> slug,
             name |-> Title(unquote(Replace(slug, "-", " "))),
             url |-> url,
             weight |-> SearchWeight(Replace(slug, "-", " "))]

\* lines 66-82
parse_category_url(url) ==
    LET match == LastMatch(url, CategoryPattern)
    IN IF match = <<>> THEN NoneValue
       ELSE [category_slug |-> match[1],
             subcategory_slug |-> match[2],
             category_id |-> match[3],
             subcategory_id |-> match[4],
             category_name |-> Title(Replace(match[1], "-", " ")),
             subcategory_name |-> Title(Replace(match[2], "-", " ")),
             url |-> url]

\* .replace("'S", "'s")
RECURSIVE ReplaceApostropheS(_)
ReplaceApostropheS(s) ==
    IF s = <<>> THEN <<>>
    ELSE IF StartsWith(s, <<"'", "S">>) THEN <<"'", "s">> \o ReplaceApostropheS(From(s, 3))
    ELSE <<s[1]>> \o ReplaceApostropheS(From(s, 2))

\* lines 84-97
parse_brand_url(url) ==
    LET match == LastMatch(url, BrandPattern)
    IN IF match = <<>> THEN NoneValue
       ELSE [brand_slug |-> match[1],
             brand_id |-> match[2],
             brand_name |-> ReplaceApostropheS(unquote(Replace(match[1], "_", " "))),
             url |-> url]

\* what fetch_xml gives when the request or the XML parse raises
FetchFailed == [failed |-> TRUE]

\* an element as line 109 finds it; an absent child is an absent field and
\* a child without text has the text None
Fetched(urls) == [failed |-> FALSE, urls |-> urls]

\* one <url> element as lines 110-131 handle it: NoneValue for an element
\* that the loop passes over, else the product with what the element adds
ProductOf(e) ==
    IF "loc" \notin DOMAIN e THEN NoneValue
    ELSE LET product == parse_product_url(e.loc)
             image == IF "image_loc" \in DOMAIN e
                        THEN [image_url |-> e.image_loc] ELSE <<>>
             title == IF "image_title" \in DOMAIN e
                        THEN [image_title |-> e.image_title] ELSE <<>>
             modified == IF "lastmod" \in DOMAIN e
                           THEN [last_modified |-> e.lastmod] ELSE <<>>
         IN IF product = NoneValue THEN NoneValue
            ELSE product @@ image @@ title @@ modified

\* the elements before the first <loc> without text: line 114 raises
\* TypeError on it, which line 132 catches
BeforeTypeError(urls) ==
    LET raising == {j \in 1..Len(urls) : "loc" \in DOMAIN urls[j] /\ urls[j].loc = None}
    IN IF raising = {} THEN urls
       ELSE SubSeq(urls, 1, (CHOOSE j \in raising : \A m \in raising : j <= m) - 1)

\* "if not product: continue" is a break: the loop ends at the first URL dropped
ProductsLoopBreaking(urls) ==
    LET read == BeforeTypeError(urls)
        dropped == {j \in 1..Len(read) :
                       "loc" \in DOMAIN read[j] /\ ProductOf(read[j]) = NoneValue}
        n == IF dropped = {} THEN Len(read)
             ELSE (CHOOSE j \in dropped : \A m \in dropped : j <= m) - 1
        Kept(product) == product # NoneValue
    IN SelectSeq([j \in 1..n |-> ProductOf(read[j])], Kept)

\* the loop of lines 109-131: the products of the elements, in order
ProductsLoop(urls) ==
    LET read == BeforeTypeError(urls)
        Kept(product) == product # NoneValue
    IN SelectSeq([j \in 1..Len(read) |-> ProductOf(read[j])], Kept)

\* lines 99-135
scrape_products_sitemap(sitemap) ==
    IF sitemap.failed THEN <<>> ELSE ProductsLoop(sitemap.urls)

\* root.findall(".//sm:loc"): the <loc> children of the elements, in order
Locs(urls) ==
    LET HasLoc(e) == "loc" \in DOMAIN e
        with == SelectSeq(urls, HasLoc)
    IN [j \in 1..Len(with) |-> with[j].loc]

\* the loops of lines 144-147 and 159-162: the records of the URLs, in
\* order; the parser raises TypeError on a <loc> without text, which lines
\* 148 and 163 catch
LocsLoop(pattern, locs) ==
    LET raising == {j \in 1..Len(locs) : locs[j] = None}
        n == IF raising = {} THEN Len(locs)
             ELSE (CHOOSE j \in raising : \A m \in raising : j <= m) - 1
        Record(url) == IF pattern = "category" THEN parse_category_url(url)
                       ELSE parse_brand_url(url)
        Kept(record) == record # NoneValue
    IN SelectSeq([j \in 1..n |-> Record(locs[j])], Kept)

\* lines 137-151
scrape_categories(sitemap) ==
    IF sitemap.failed THEN <<>> ELSE LocsLoop("category", Locs(sitemap.urls))

\* lines 153-167
scrape_brands(sitemap) ==
    IF sitemap.failed THEN <<>> ELSE LocsLoop("brand", Locs(sitemap.urls))

-----------------------------------------------------------------------------
(* SpecSitemap: the URL parsers are applied to one URL, the sitemap        *)
(* scrapers to one sitemap.                                                *)

MaxUrls == 2           \* <url> elements of a sitemap in SpecSitemap

Bases == {<<"h", "t", "t", "p", "s", ":", "/", "/", "w", "w", "w", ".", "z", "e", "p", "t", "o", ".", "c", "o", "m">>,
         <<"h", "t", "t", "p", "s", ":", "/", "/", "w", "w", "w", ".", "z", "e", "p", "t", "o", ".", "c", "o", "m", "/", "p", "n", "/", "o", "l", "d", "/", "p", "v", "i", "d", "/", "0">>}

Slugs == {<<"a", "m", "u", "l", "-", "b", "u", "t", "t", "e", "r", "-", "5", "0", "0", "-", "g">>,
         <<"r", "i", "c", "e">>,
         <<"t", "a", "t", "a", "%", "2", "0", "s", "a", "l", "t", "-", "1", ".", "5", "k", "g">>,
         <<"a", "/", "b">>}

VariantIds == {<<"9", "e", "d", "1", "c", "e", "5", "9", "-", "1", "d", "e", "4">>,
              <<"0", "a", "1", "b">>,
              <<"9", "E", "D", "1", "C", "E", "5", "9">>,
              <<"7", "g", "2">>,
              <<"x", "1">>}

\* <base>/pn/<slug>/pvid/<variantId>
ProductUrl(base, slug, id) == base \o <<"/", "p", "n", "/">> \o slug \o <<"/", "p", "v", "i", "d", "/">> \o id

CategoryUrl == <<"h", "t", "t", "p", "s", ":", "/", "/", "w", "w", "w", ".", "z", "e", "p", "t", "o", ".", "c", "o", "m", "/", "c", "n", "/", "d", "a", "i", "r", "y", "/", "m", "i", "l", "k", "-", "c", "u", "r", "d", "/", "c", "i", "d", "/", "1", "a", "/", "s", "c", "i", "d", "/", "2", "b">>

BrandUrl == <<"h", "t", "t", "p", "s", ":", "/", "/", "w", "w", "w", ".", "z", "e", "p", "t", "o", ".", "c", "o", "m", "/", "b", "r", "a", "n", "d", "/", "A", "m", "u", "l", "_", "D", "a", "i", "r", "y", "'", "S", "/", "3", "c">>

\* URLs of a sitemap that are no product URLs
OtherUrls == {CategoryUrl, BrandUrl,
              <<"h", "t", "t", "p", "s", ":", "/", "/", "w", "w", "w", ".", "z", "e", "p", "t", "o", ".", "c", "o", "m", "/", "a", "b", "o", "u", "t">>,
              <<"h", "t", "t", "p", "s", ":", "/", "/", "w", "w", "w", ".", "z", "e", "p", "t", "o", ".", "c", "o", "m", "/", "p", "n", "/", "r", "i", "c", "e">>}

PlainProductUrl == ProductUrl(<<"h", "t", "t", "p", "s", ":", "/", "/", "w", "w", "w", ".", "z", "e", "p", "t", "o", ".", "c", "o", "m">>, <<"r", "i", "c", "e">>, <<"0", "a", "1", "b">>)

\* the <url> elements of the sitemaps: with and without <loc>, image and lastmod
UrlElements ==
    {[loc |-> ProductUrl(<<"h", "t", "t", "p", "s", ":", "/", "/", "w", "w", "w", ".", "z", "e", "p", "t", "o", ".", "c", "o", "m">>, <<"a", "m", "u", "l", "-", "b", "u", "t", "t", "e", "r", "-", "5", "0", "0", "-", "g">>, <<"9", "e", "d", "1", "c", "e", "5", "9", "-", "1", "d", "e", "4">>),
      image_loc |-> <<"i", ".", "p", "n", "g">>, image_title |-> <<"B", "u", "t", "t", "e", "r">>, lastmod |-> <<"2", "0", "2", "4">>],
     [loc |-> PlainProductUrl],
     [loc |-> PlainProductUrl, image_loc |-> <<"i", ".", "p", "n", "g">>],
     [loc |-> CategoryUrl],
     [loc |-> BrandUrl],
     [loc |-> <<"h", "t", "t", "p", "s", ":", "/", "/", "w", "w", "w", ".", "z", "e", "p", "t", "o", ".", "c", "o", "m", "/", "a", "b", "o", "u", "t">>],
     [loc |-> None],
     [lastmod |-> <<"2", "0", "2", "4">>]}

\* the sequences of up to n elements
RECURSIVE ElementSeqs(_)
ElementSeqs(n) ==
    IF n = 0 THEN {<<>>}
    ELSE ElementSeqs(n - 1)
           \cup {Append(s, e) : s \in {q \in ElementSeqs(n - 1) : Len(q) = n - 1},
                                e \in UrlElements}

Sitemaps == {FetchFailed} \cup {Fetched(s) : s \in ElementSeqs(MaxUrls)}

\* the URL of a call is kept with the slug and the id it was built from
UrlCalls ==
    {[fn |-> "parse_product_url", url |-> ProductUrl(b, s, v), slug |-> s, variantId |-> v] :
        b \in Bases, s \in Slugs, v \in VariantIds}
      \cup {[fn |-> f, url |-> u] :
              f \in {"parse_product_url", "parse_category_url", "parse_brand_url"},
              u \in OtherUrls \cup {PlainProductUrl}}

SitemapCalls ==
    {[fn |-> f, sitemap |-> m] :
        f \in {"scrape_products_sitemap", "scrape_categories", "scrape_brands"},
        m \in Sitemaps}

ParseProductUrl ==
    /\ call.fn = "parse_product_url"
    /\ Returns(parse_product_url(call.url))

ParseCategoryUrl ==
    /\ call.fn = "parse_category_url"
    /\ Returns(parse_category_url(call.url))

ParseBrandUrl ==
    /\ call.fn = "parse_brand_url"
    /\ Returns(parse_brand_url(call.url))

ScrapeProductsSitemap ==
    /\ call.fn = "scrape_products_sitemap"
    /\ Returns(scrape_products_sitemap(call.sitemap))

ScrapeCategories ==
    /\ call.fn = "scrape_categories"
    /\ Returns(scrape_categories(call.sitemap))

ScrapeBrands ==
    /\ call.fn = "scrape_brands"
    /\ Returns(scrape_brands(call.sitemap))

InitSitemap == \E c \in UrlCalls \cup SitemapCalls : Called(c)

NextSitemap ==
    \/ ParseProductUrl
    \/ ParseCategoryUrl
    \/ ParseBrandUrl
    \/ ScrapeProductsSitemap
    \/ ScrapeCategories
    \/ ScrapeBrands

SpecSitemap == InitSitemap /\ [][NextSitemap]_vars

-----------------------------------------------------------------------------
(* C16 *)

\* parse_product_url has returned for a URL built from a slug and an id
BuiltUrlParsed ==
    call.fn = "parse_product_url" /\ "slug" \in DOMAIN call /\ returned.done

\* the slug and the id of the URL come back
RoundTrip ==
    /\ returned.value # NoneValue
    /\ returned.value.slug = call.slug
    /\ returned.value.product_variant_id = call.variantId

\* C16 as claimed: every URL built as <base>/pn/<slug>/pvid/<variantId>
\* gives back its slug and its variantId.
C16_RoundTripOfEveryBuiltUrl == BuiltUrlParsed => RoundTrip

\* a slug is a non-empty text without "/"
IsSlug(s) == s # <<>> /\ \A j \in 1..Len(s) : s[j] # "/"

\* an id of the pattern is a non-empty text of lower-case hexadecimal digits and dashes
IsPatternId(v) == v # <<>> /\ \A j \in 1..Len(v) : v[j] \in IdChars

\* C16 (amended): a URL built from a slug (a non-empty text without "/")
\* and from a variantId made of lower-case hexadecimal digits and dashes
\* gives back both; a URL built from any other slug or variantId does not.
C16_RoundTripOfPatternIds ==
    BuiltUrlParsed =>
        (RoundTrip <=> (IsSlug(call.slug) /\ IsPatternId(call.variantId)))

\* the base of the URL itself holds a product path; slug and id of the
\* last path come back
C16_Witness ==
    /\ BuiltUrlParsed
    /\ call.url = ProductUrl(<<"h", "t", "t", "p", "s", ":", "/", "/", "w", "w", "w", ".", "z", "e", "p", "t", "o", ".", "c", "o", "m", "/", "p", "n", "/", "o", "l", "d", "/", "p", "v", "i", "d", "/", "0">>, <<"a", "m", "u", "l", "-", "b", "u", "t", "t", "e", "r", "-", "5", "0", "0", "-", "g">>, <<"9", "e", "d", "1", "c", "e", "5", "9", "-", "1", "d", "e", "4">>)
    /\ RoundTrip

-----------------------------------------------------------------------------
(* C17 *)

\* u holds /pn/<slug>/pvid/<id>: the product pattern
IsProductUrl(u) ==
    \E p \in 1..Len(u) :
        /\ LitAt(u, p, <<"/", "p", "n", "/">>)
        /\ \E n \in 1..(Len(u) - p - 3) :
              /\ IsSlug(SubSeq(u, p + 4, p + 3 + n))
              /\ LitAt(u, p + 4 + n, <<"/", "p", "v", "i", "d", "/">>)
              /\ p + 10 + n <= Len(u)
              /\ u[p + 10 + n] \in IdChars

\* u holds /cn/<slug>/<slug>/cid/<id>/scid/<id>: the category pattern
IsCategoryUrl(u) ==
    \E p \in 1..Len(u) :
        /\ LitAt(u, p, <<"/", "c", "n", "/">>)
        /\ \E a, b, c \in 1..Len(u) :
              /\ p + 9 + a + b + c <= Len(u)
              /\ IsSlug(SubSeq(u, p + 4, p + 3 + a))
              /\ LitAt(u, p + 4 + a, <<"/">>)
              /\ IsSlug(SubSeq(u, p + 5 + a, p + 4 + a + b))
              /\ LitAt(u, p + 5 + a + b, <<"/", "c", "i", "d", "/">>)
              /\ IsPatternId(SubSeq(u, p + 10 + a + b, p + 9 + a + b + c))
              /\ LitAt(u, p + 10 + a + b + c, <<"/", "s", "c", "i", "d", "/">>)
              /\ p + 16 + a + b + c <= Len(u)
              /\ u[p + 16 + a + b + c] \in IdChars

\* u holds /brand/<slug>/<id>: the brand pattern
IsBrandUrl(u) ==
    \E p \in 1..Len(u) :
        /\ LitAt(u, p, <<"/", "b", "r", "a", "n", "d", "/">>)
        /\ \E n \in 1..(Len(u) - p - 6) :
              /\ IsSlug(SubSeq(u, p + 7, p + 6 + n))
              /\ LitAt(u, p + 7 + n, <<"/">>)
              /\ p + 8 + n <= Len(u)
              /\ u[p + 8 + n] \in IdChars

\* the pattern of each scraper
IsRecordUrl(fn, u) ==
    IF fn = "scrape_products_sitemap" THEN IsProductUrl(u)
    ELSE IF fn = "scrape_categories" THEN IsCategoryUrl(u)
    ELSE IsBrandUrl(u)

\* a parser has returned
Parsed ==
    /\ call.fn \in {"parse_product_url", "parse_category_url", "parse_brand_url"}
    /\ returned.done

\* a scraper has returned for a sitemap that was fetched and in which every
\* <loc> holds a URL
Scraped ==
    /\ call.fn \in {"scrape_products_sitemap", "scrape_categories", "scrape_brands"}
    /\ returned.done
    /\ ~call.sitemap.failed
    /\ \A j \in 1..Len(Locs(call.sitemap.urls)) : Locs(call.sitemap.urls)[j] # None

\* the URLs of the sitemap that match the pattern of the scraper, in order
MatchingLocs ==
    LET Test(u) == IsRecordUrl(call.fn, u)
    IN SelectSeq(Locs(call.sitemap.urls), Test)

\* C17: a parser returns None for a URL that matches none of the three
\* patterns, and a scraper returns one record for each URL of the sitemap
\* that matches its pattern, in order, and none for the other URLs.
C17_NonMatchingUrlsAreDropped ==
    /\ Parsed /\ ~IsProductUrl(call.url) /\ ~IsCategoryUrl(call.url) /\ ~IsBrandUrl(call.url)
         => returned.value = NoneValue
    /\ Scraped =>
         /\ Len(returned.value) = Len(MatchingLocs)
         /\ \A j \in 1..Len(MatchingLocs) : returned.value[j].url = MatchingLocs[j]

\* a sitemap of a URL that matches no pattern followed by a product URL
\* gives the one record of the product
C17_Witness ==
    /\ Scraped
    /\ call.fn = "scrape_products_sitemap"
    /\ call.sitemap.urls = <<[loc |-> <<"h", "t", "t", "p", "s", ":", "/", "/", "w", "w", "w", ".", "z", "e", "p", "t", "o", ".", "c", "o", "m", "/", "a", "b", "o", "u", "t">>], [loc |-> PlainProductUrl]>>
    /\ Len(returned.value) = 1
    /\ returned.value[1].url = PlainProductUrl

-----------------------------------------------------------------------------
(* The parser of saved Zepto pages (src/scrapers/zepto_html_parser.py).    *)
(* The page is given by what each of the five patterns of lines 54-71      *)
(* finds in it: per pattern, the captured texts in the order of the page.  *)

\* lines 38-52
PRODUCT_KEYWORDS == <<
    <<"b", "u", "t", "t", "e", "r">>, <<"s", "p", "r", "e", "a", "d">>, <<"h", "o", "n", "e", "y">>,
    <<"o", "i", "l">>, <<"v", "i", "n", "e", "g", "a", "r">>, <<"s", "a", "u", "c", "e">>,
    <<"j", "a", "m">>, <<"c", "h", "u", "t", "n", "e", "y">>, <<"p", "i", "c", "k", "l", "e">>,
    <<"j", "a", "g", "g", "e", "r", "y">>, <<"k", "e", "t", "c", "h", "u", "p">>, <<"d", "i", "p">>,
    <<"m", "a", "y", "o">>, <<"m", "a", "y", "o", "n", "n", "a", "i", "s", "e">>,
    <<"m", "u", "s", "t", "a", "r", "d">>, <<"s", "y", "r", "u", "p">>,
    <<"m", "u", "e", "s", "l", "i">>, <<"o", "a", "t", "s">>, <<"c", "e", "r", "e", "a", "l">>,
    <<"c", "o", "r", "n", "f", "l", "a", "k", "e", "s">>, <<"p", "o", "h", "a">>,
    <<"u", "p", "m", "a">>, <<"p", "a", "s", "t", "a">>, <<"n", "o", "o", "d", "l", "e", "s">>,
    <<"v", "e", "r", "m", "i", "c", "e", "l", "l", "i">>, <<"r", "i", "c", "e">>, <<"d", "a", "l">>,
    <<"l", "e", "n", "t", "i", "l">>, <<"b", "e", "a", "n", "s">>,
    <<"c", "h", "o", "c", "o", "l", "a", "t", "e">>, <<"c", "o", "c", "o", "a">>,
    <<"c", "o", "f", "f", "e", "e">>, <<"t", "e", "a">>, <<"m", "i", "l", "k">>,
    <<"c", "r", "e", "a", "m">>, <<"c", "h", "e", "e", "s", "e">>, <<"p", "a", "n", "e", "e", "r">>,
    <<"t", "o", "f", "u">>, <<"y", "o", "g", "u", "r", "t">>, <<"c", "u", "r", "d">>,
    <<"l", "a", "s", "s", "i">>, <<"b", "u", "t", "t", "e", "r", "m", "i", "l", "k">>,
    <<"b", "r", "e", "a", "d">>, <<"r", "o", "t", "i">>, <<"n", "a", "a", "n">>,
    <<"p", "a", "r", "a", "t", "h", "a">>, <<"b", "i", "s", "c", "u", "i", "t">>,
    <<"c", "o", "o", "k", "i", "e">>, <<"c", "h", "i", "p", "s">>,
    <<"n", "a", "m", "k", "e", "e", "n">>, <<"s", "n", "a", "c", "k">>, <<"n", "u", "t", "s">>,
    <<"s", "e", "e", "d", "s">>, <<"d", "r", "i", "e", "d">>, <<"j", "u", "i", "c", "e">>,
    <<"d", "r", "i", "n", "k">>, <<"w", "a", "t", "e", "r">>, <<"s", "o", "d", "a">>,
    <<"e", "n", "e", "r", "g", "y">>, <<"m", "a", "s", "a", "l", "a">>, <<"s", "p", "i", "c", "e">>,
    <<"s", "a", "l", "t">>, <<"s", "u", "g", "a", "r">>, <<"f", "l", "o", "u", "r">>,
    <<"a", "t", "t", "a">>, <<"g", "h", "e", "e">>, <<"c", "o", "o", "k", "i", "n", "g">>,
    <<"o", "l", "i", "v", "e">>, <<"c", "o", "c", "o", "n", "u", "t">>,
    <<"s", "u", "n", "f", "l", "o", "w", "e", "r">>, <<"p", "r", "o", "t", "e", "i", "n">>,
    <<"w", "h", "e", "y">>, <<"s", "u", "p", "p", "l", "e", "m", "e", "n", "t">>,
    <<"v", "i", "t", "a", "m", "i", "n">>, <<"o", "r", "g", "a", "n", "i", "c">>,
    <<"n", "a", "t", "u", "r", "a", "l">>, <<"f", "r", "e", "s", "h">>, <<"p", "u", "r", "e">> >>

\* lines 54-57: the names of 10 to 200 characters that hold a product keyword
Names(content) ==
    LET IsProduct(name) ==
            /\ Len(name) >= 10 /\ Len(name) <= 200
            /\ \E j \in 1..Len(PRODUCT_KEYWORDS) : Contains(PRODUCT_KEYWORDS[j], Lower(name))
    IN SelectSeq(content.name, IsProduct)

\* every other element from the second on
EveryOtherFromSecond(s) == [j \in 1..(Len(s) \div 2) |-> s[2 * j]]

\* s[::2]
EveryOther(s) == [j \in 1..((Len(s) + 1) \div 2) |-> s[2 * j - 1]]

\* [int(m.group(1)) for m in ...]
Ints(texts) == [j \in 1..Len(texts) |-> DigitsValue(texts[j])]

\* round(n / d) for d > 0: to the nearest integer, a tie to the even one
Round(n, d) ==
    LET q == n \div d
        r == n % d
    IN IF 2 * r < d THEN q
       ELSE IF 2 * r > d THEN q + 1
       ELSE IF q % 2 = 0 THEN q ELSE q + 1

\* paise / 100, as a float
Rupees(paise) == Number((paise * Pow10(Places)) \div 100)

\* lines 59-71: the five arrays
Arrays(content) ==
    [names |-> Names(content),
     packsizes |-> content.formattedPacksize,
     variant_ids |-> content.productVariant,
     mrps |-> EveryOther(Ints(content.mrp)),
     selling_prices |-> Ints(content.sellingPrice)]

\* line 74
min_len(a) == Min(Min(Len(a.names), Len(a.mrps)), Min(Len(a.selling_prices), Len(a.packsizes)))

\* every record carries the first selling price
ProductRecordFirstPrice(a, j) ==
    [name |-> a.names[j],
     packsize |-> a.packsizes[j],
     mrp |-> Rupees(a.mrps[j]),
     selling_price |-> Rupees(a.selling_prices[1]),
     discount_pct |-> IF a.mrps[j] > 0
                        THEN Round(100 * (a.mrps[j] - a.selling_prices[1]), a.mrps[j])
                        ELSE 0,
     variant_id |-> IF j <= Len(a.variant_ids) THEN a.variant_ids[j] ELSE None]

\* lines 78-89, for i = j - 1
ProductRecord(a, j) ==
    [name |-> a.names[j],
     packsize |-> a.packsizes[j],
     mrp |-> Rupees(a.mrps[j]),
     selling_price |-> Rupees(a.selling_prices[j]),
     discount_pct |-> IF a.mrps[j] > 0
                        THEN Round(100 * (a.mrps[j] - a.selling_prices[j]), a.mrps[j])
                        ELSE 0,
     variant_id |-> IF j <= Len(a.variant_ids) THEN a.variant_ids[j] ELSE None]

\* lines 14-91
parse_zepto_html(content) ==
    LET a == Arrays(content)
    IN [j \in 1..min_len(a) |-> ProductRecord(a, j)]

-----------------------------------------------------------------------------
(* SpecHtml: parse_zepto_html is applied to one saved page.                *)

MaxProducts == 2       \* products of a page in SpecHtml

\* the decimal text of a natural number
RECURSIVE ToText(_)
ToText(n) == IF n < 10 THEN <<Digits[n + 1]>> ELSE ToText(n \div 10) \o <<Digits[(n % 10) + 1]>>

\* the k-th "name" of a page: every fourth one is too short for the pattern
\* and the one before it is no product
NthName(k) ==
    IF k % 4 = 0 THEN <<"O", "l", "i", "v", "e", " ", "O", "i", "l">>
    ELSE IF k % 4 = 3 THEN <<"P", "r", "i", "v", "a", "c", "y", " ", "P", "o", "l", "i", "c", "y">>
    ELSE <<"A", "m", "u", "l", " ", "B", "u", "t", "t", "e", "r", " ">> \o ToText(k)

NthPacksize(k) == ToText(k) \o <<" ", "k", "g">>

NthVariant(k) == <<"v">> \o ToText(k)

NthSellingPrice(k) == ToText(8000 * k)

\* the k-th "mrp" of a page: each product's MRP twice in a row, each
\* occurrence with a value of its own, or no MRP known (0)
MrpModes == {"twice", "once", "zero"}
NthMrp(mode, k) ==
    IF mode = "twice" THEN ToText(10000 * ((k + 1) \div 2))
    ELSE IF mode = "once" THEN ToText(10000 * k)
    ELSE <<"0">>

Pages ==
    {[name |-> [k \in 1..n |-> NthName(k)],
      formattedPacksize |-> [k \in 1..p |-> NthPacksize(k)],
      productVariant |-> [k \in 1..v |-> NthVariant(k)],
      mrp |-> [k \in 1..m |-> NthMrp(mode, k)],
      sellingPrice |-> [k \in 1..s |-> NthSellingPrice(k)]] :
        n \in 0..(MaxProducts + 2), p \in 0..MaxProducts, v \in 0..MaxProducts,
        m \in 0..(2 * MaxProducts), s \in 0..MaxProducts, mode \in MrpModes}

ParseZeptoHtml ==
    /\ call.fn = "parse_zepto_html"
    /\ Returns(parse_zepto_html(call.content))

InitHtml == \E c \in Pages : Called([fn |-> "parse_zepto_html", content |-> c])

NextHtml == ParseZeptoHtml

SpecHtml == InitHtml /\ [][NextHtml]_vars

-----------------------------------------------------------------------------
(* C18 *)

PageParsed == call.fn = "parse_zepto_html" /\ returned.done

\* C18: the i-th product carries the MRP of the (2i-1)-th "mrp" of the
\* page, so a page with 2k occurrences has at most k products.
C18_EveryOtherMrp ==
    PageParsed =>
        /\ 2 * Len(returned.value) <= Len(call.content.mrp) + 1
        /\ \A j \in 1..Len(returned.value) :
              returned.value[j].mrp = Rupees(DigitsValue(call.content.mrp[2 * j - 1]))

\* a page of two products, each with its MRP twice (100.00, 100.00, 200.00,
\* 200.00), gives two products, with the MRPs 100.00 and 200.00
C18_Witness ==
    /\ PageParsed
    /\ call.content.mrp = <<ToText(10000), ToText(10000), ToText(20000), ToText(20000)>>
    /\ Len(call.content.name) = 2
    /\ Len(returned.value) = 2
    /\ returned.value[1].mrp = Rupees(10000)
    /\ returned.value[2].mrp = Rupees(20000)

-----------------------------------------------------------------------------
(* C19 *)

\* the names of the page that are product names, in order
ProductNames ==
    LET a == call.content.name
        keep == {k \in 1..Len(a) : Len(a[k]) >= 10 /\ \E j \in 1..Len(PRODUCT_KEYWORDS) :
                                        Contains(PRODUCT_KEYWORDS[j], Lower(a[k]))}
        Kept(k) == Cardinality({m \in keep : m <= k})
    IN [j \in 1..Cardinality(keep) |-> a[CHOOSE k \in keep : Kept(k) = j]]

\* the number of MRPs after every other one is dropped
MrpCount == (Len(call.content.mrp) + 1) \div 2

\* record j takes name, packsize, MRP and selling price from position j of
\* their arrays
TakenFromIndex(j) ==
    /\ returned.value[j].name = ProductNames[j]
    /\ returned.value[j].packsize = call.content.formattedPacksize[j]
    /\ returned.value[j].mrp = Rupees(DigitsValue(call.content.mrp[2 * j - 1]))
    /\ returned.value[j].selling_price = Rupees(DigitsValue(call.content.sellingPrice[j]))

\* C19 as claimed: there are as many records as the shortest of all the
\* field arrays has entries, the variant ids among them, and record j takes
\* every field from position j.
C19_MinOverAllArrays ==
    PageParsed =>
        /\ Len(returned.value) =
              Min(Min(Min(Len(ProductNames), MrpCount),
                      Min(Len(call.content.sellingPrice), Len(call.content.formattedPacksize))),
                  Len(call.content.productVariant))
        /\ \A j \in 1..Len(returned.value) :
              /\ TakenFromIndex(j)
              /\ returned.value[j].variant_id = call.content.productVariant[j]

\* C19 (amended): there are as many records as the shortest of the arrays
\* of product names, MRPs (every other one), selling prices and packsizes;
\* record j takes these fields from position j, and its variant id from
\* position j if there is one, else None.
C19_MinOverFourArrays ==
    PageParsed =>
        /\ Len(returned.value) =
              Min(Min(Len(ProductNames), MrpCount),
                  Min(Len(call.content.sellingPrice), Len(call.content.formattedPacksize)))
        /\ \A j \in 1..Len(returned.value) :
              /\ TakenFromIndex(j)
              /\ returned.value[j].variant_id =
                    IF j <= Len(call.content.productVariant)
                      THEN call.content.productVariant[j] ELSE None

\* two names, two packsizes, two selling prices, three MRPs and one
\* variant id give two records, the second without variant id
C19_Witness ==
    /\ PageParsed
    /\ Len(call.content.name) = 2 /\ Len(call.content.formattedPacksize) = 2
    /\ Len(call.content.sellingPrice) = 2 /\ Len(call.content.mrp) = 3
    /\ Len(call.content.productVariant) = 1
    /\ Len(returned.value) = 2
    /\ returned.value[2].selling_price = Rupees(16000)
    /\ returned.value[2].variant_id = None

-----------------------------------------------------------------------------
(* The nutrition enricher (src/scrapers/zepto_curl_enricher.py) *)

\* s.replace(old, new) for a text "old" of two different characters and a
\* character "new"
Replace2(s, old, new) ==
    LET hits == {p \in 1..(Len(s) - 1) : s[p] = old[1] /\ s[p + 1] = old[2]}
        marked == [p \in 1..Len(s) |->
                      IF p \in hits THEN new
                      ELSE IF (p - 1) \in hits THEN "~dropped" ELSE s[p]]
        Kept(c) == c # "~dropped"
    IN SelectSeq(marked, Kept)

\* lines 49, 77 and 98: .replace('\\n', '\n').replace('\\"', '"').replace('\\/', '/')
Unescape(content) ==
    Replace2(Replace2(Replace2(content, <<"\\", "n">>, "\n"),
                      <<"\\", "\"">>, "\""),
             <<"\\", "/">>, "/")

\* the patterns of lines 54-65 up to their group ([0-9.]+), and their keys
NutritionPatterns == <<
    [label |-> <<"E", "n", "e", "r", "g", "y", " ", "(", "k", "c", "a", "l", ")", " ">>,
     key |-> "energy_kcal"],
    [label |-> <<"P", "r", "o", "t", "e", "i", "n", " ", "(", "g", ")", " ">>,
     key |-> "protein_g"],
    [label |-> <<"C", "a", "r", "b", "o", "h", "y", "d", "r", "a", "t", "e", " ", "(", "g", ")", " ">>,
     key |-> "carbs_g"],
    [label |-> <<"T", "o", "t", "a", "l", " ", "F", "a", "t", " ", "(", "g", ")", " ">>,
     key |-> "fat_g"],
    [label |-> <<"T", "o", "t", "a", "l", " ", "S", "u", "g", "a", "r", "s", " ", "(", "g", ")", " ">>,
     key |-> "sugar_g"],
    [label |-> <<"A", "d", "d", "e", "d", " ", "S", "u", "g", "a", "r", "s", " ", "(", "g", ")", " ">>,
     key |-> "added_sugar_g"],
    [label |-> <<"D", "i", "e", "t", "a", "r", "y", " ", "F", "i", "b", "r", "e", " ", "(", "g", ")", " ">>,
     key |-> "fiber_g"],
    [label |-> <<"S", "o", "d", "i", "u", "m", " ", "(", "m", "g", ")", " ">>,
     key |-> "sodium_mg"],
    [label |-> <<"S", "a", "t", "u", "r", "a", "t", "e", "d", " ", "F", "a", "t", " ", "(", "g", ")", " ">>,
     key |-> "saturated_fat_g"],
    [label |-> <<"T", "r", "a", "n", "s", " ", "F", "a", "t", " ", "(", "g", ")", " ">>,
     key |-> "trans_fat_g"] >>

\* the group of <label>([0-9.]+) at the leftmost place where it matches, or None
NumberAfter(s, label) ==
    LET ps == {p \in 1..Len(s) :
                  /\ LitAt(s, p, label)
                  /\ p + Len(label) <= Len(s)
                  /\ IsDigitOrDot(s[p + Len(label)])}
        p == CHOOSE p \in ps : \A m \in ps : p <= m
        a == p + Len(label)
    IN IF ps = {} THEN None
       ELSE SubSeq(s, a, a + Run(From(s, a), DigitChars \cup {"."}) - 1)

\* lines 46-72: the dict of the fields found, or ValueError when float()
\* at line 70 raises
extract_nutrition(content) ==
    LET s == Unescape(content)
        found == {j \in 1..Len(NutritionPatterns) :
                     NumberAfter(s, NutritionPatterns[j].label) # None}
        Captured(j) == NumberAfter(s, NutritionPatterns[j].label)
        KeyIndex(k) == CHOOSE j \in found : NutritionPatterns[j].key = k
    IN IF \E j \in found : ~IsFloatText(Captured(j)) THEN ValueError
       ELSE [k \in {NutritionPatterns[j].key : j \in found} |-> Number(Float(Captured(KeyIndex(k))))]

\* the group of <key>\s*:\s*"([^"]{least,})" when it matches at position p
\* of the text ls, cut out of the text s; <<>> when it does not match there
QuotedAt(s, ls, p, key, least) ==
    LET b == p + Len(key) + Run(From(ls, p + Len(key)), Whitespace)
        c == b + 1 + Run(From(ls, b + 1), Whitespace)
        n == RunExcept(From(ls, c + 1), {"\""})
    IN IF /\ LitAt(ls, p, key)
          /\ LitAt(ls, b, <<":">>)
          /\ LitAt(ls, c, <<"\"">>)
          /\ n >= least
          /\ LitAt(ls, c + 1 + n, <<"\"">>)
         THEN SubSeq(s, c + 1, c + n) ELSE <<>>

\* re.search of that pattern: the group of the leftmost match, or None
SearchQuoted(s, ls, key, least) ==
    LET ps == {p \in 1..Len(ls) : QuotedAt(s, ls, p, key, least) # <<>>}
    IN IF ps = {} THEN None
       ELSE QuotedAt(s, ls, CHOOSE p \in ps : \A m \in ps : p <= m, key, least)

\* s.replace('\\', '')
DropBackslashes(s) == LET NotBackslash(c) == c # "\\" IN SelectSeq(s, NotBackslash)

\* s.strip()
Strip(s) ==
    LET a == Run(s, Whitespace)
        Back(j) == s[Len(s) + 1 - j]
        rev == [j \in 1..Len(s) |-> Back(j)]
        b == Run(rev, Whitespace)
    IN IF a = Len(s) THEN <<>> ELSE SubSeq(s, a + 1, Len(s) - b)

\* the minimum length of the group {10,} of lines 81-82
IngredientsLeast == 10

\* lines 75-93
extract_ingredients(content) ==
    LET s == Unescape(content)
        lower == SearchQuoted(s, s, <<"\"", "i", "n", "g", "r", "e", "d", "i", "e", "n", "t", "s", "\"">>, IngredientsLeast)
        upper == SearchQuoted(s, s, <<"\"", "I", "n", "g", "r", "e", "d", "i", "e", "n", "t", "s", "\"">>, IngredientsLeast)
        group == IF lower # None THEN lower ELSE upper
    IN IF group = None THEN None
       ELSE Strip(DropBackslashes(Replace2(group, <<"\\", "n">>, " ")))

\* the lengths {12,14} of the digit group of line 103
LicenceLeast == 12
LicenceMost == 14

\* the group of FSSAI[^0-9]*([0-9]{12,14}) when it matches at position p of
\* the lower-cased text ls
LicenceAt(s, ls, p) ==
    LET a == p + 5 + RunExcept(From(ls, p + 5), DigitChars)
        n == Run(From(ls, a), DigitChars)
    IN IF LitAt(ls, p, <<"f", "s", "s", "a", "i">>) /\ n >= LicenceLeast
         THEN SubSeq(s, a, a + Min(n, LicenceMost) - 1) ELSE <<>>

\* lines 96-111; re.IGNORECASE is matching on the lower-cased text
extract_fssai(content) ==
    LET s == Unescape(content)
        ls == Lower(s)
        first == SearchQuoted(s, ls, <<"\"", "f", "s", "s", "a", "i", "l", "i", "c", "e", "n", "s", "e", "\"">>, 1)
        second == SearchQuoted(s, ls, <<"\"", "f", "s", "s", "a", "i", "l", "i", "c", "e", "n", "s", "e", "n", "o", "\"">>, 1)
        ps == {p \in 1..Len(ls) : LicenceAt(s, ls, p) # <<>>}
    IN IF first # None THEN first
       ELSE IF second # None THEN second
       ELSE IF ps # {} THEN LicenceAt(s, ls, CHOOSE p \in ps : \A m \in ps : p <= m)
       ELSE None

\* the markers of line 121
Marker404 == <<"N", "E", "X", "T", "_", "H", "T", "T", "P", "_", "E", "R", "R", "O", "R", "_", "F", "A", "L", "L", "B", "A", "C", "K", ";", "4", "0", "4">>
MarkerLookingFor == <<"p", "a", "g", "e", " ", "y", "o", "u", "'", "r", "e", " ", "l", "o", "o", "k", "i", "n", "g", " ", "f", "o", "r">>

\* the marker alone decides
extract_product_infoMarkerOnly(content, product_name, pvid) ==
    LET nutrition == extract_nutrition(content)
        ingredients == extract_ingredients(content)
        fssai == extract_fssai(content)
        has_404_marker == Contains(Marker404, content) \/ Contains(MarkerLookingFor, content)
    IN IF nutrition = ValueError THEN ValueError
       ELSE [pvid |-> pvid,
             name |-> product_name,
             nutrition |-> IF DOMAIN nutrition # {} THEN nutrition ELSE NoneValue,
             ingredients |-> ingredients,
             fssai |-> fssai,
             has_nutrition |-> DOMAIN nutrition # {},
             is_404 |-> has_404_marker,
             scraped_at |-> clock]

\* lines 114-133; the ValueError of extract_nutrition passes through
extract_product_info(content, product_name, pvid) ==
    LET nutrition == extract_nutrition(content)
        ingredients == extract_ingredients(content)
        fssai == extract_fssai(content)
        has_404_marker == Contains(Marker404, content) \/ Contains(MarkerLookingFor, content)
    IN IF nutrition = ValueError THEN ValueError
       ELSE [pvid |-> pvid,
             name |-> product_name,
             nutrition |-> IF DOMAIN nutrition # {} THEN nutrition ELSE NoneValue,
             ingredients |-> ingredients,
             fssai |-> fssai,
             has_nutrition |-> DOMAIN nutrition # {},
             is_404 |-> has_404_marker /\ DOMAIN nutrition = {} /\ ~Truthy(ingredients),
             scraped_at |-> clock]

-----------------------------------------------------------------------------
(* SpecEnricher: extract_product_info is applied to one fetched page.      *)

MaxFragments == 2      \* pieces a page is put together from in SpecEnricher

\* pieces of product pages: the two not-found markers, nutrition lines,
\* ingredients and licence numbers plain and escaped, and markup
Fragments == {
    <<"N", "E", "X", "T", "_", "H", "T", "T", "P", "_", "E", "R", "R", "O", "R", "_", "F", "A", "L", "L", "B", "A", "C", "K", ";", "4", "0", "4", " ">>,
    <<"p", "a", "g", "e", " ", "y", "o", "u", "'", "r", "e", " ", "l", "o", "o", "k", "i", "n", "g", " ", "f", "o", "r", " ">>,
    <<"E", "n", "e", "r", "g", "y", " ", "(", "k", "c", "a", "l", ")", " ", "7", "2", "4", " ">>,
    <<"P", "r", "o", "t", "e", "i", "n", " ", "(", "g", ")", " ", "1", ".", "5", ",">>,
    <<"T", "o", "t", "a", "l", " ", "F", "a", "t", " ", "(", "g", ")", " ", "0", ".", "5", ".", " ">>,
    <<"\"", "i", "n", "g", "r", "e", "d", "i", "e", "n", "t", "s", "\"", ":", "\"", "M", "i", "l", "k", " ", "s", "o", "l", "i", "d", "s", ",", " ", "s", "u", "g", "a", "r", "\"">>,
    <<"\"", "i", "n", "g", "r", "e", "d", "i", "e", "n", "t", "s", "\"", ":", "\"", "M", "i", "l", "k", "\"">>,
    <<"\\", "\"", "I", "n", "g", "r", "e", "d", "i", "e", "n", "t", "s", "\\", "\"", " ", ":", " ", "\\", "\"", "W", "h", "e", "a", "t", " ", "f", "l", "o", "u", "r", "\\", "\\", "n", "(", "6", "2", "%", ")", "\\", "\"">>,
    <<"\"", "i", "n", "g", "r", "e", "d", "i", "e", "n", "t", "s", "\"", ":", "\"", " ", " ", " ", " ", " ", " ", " ", " ", " ", " ", "\"">>,
    <<"F", "S", "S", "A", "I", " ", "L", "i", "c", ".", " ", "N", "o", ".", " ", "1", "0", "0", "1", "2", "3", "4", "5", "6", "7", "8", "9", "0", "1", " ">>,
    <<"\"", "f", "s", "s", "a", "i", "L", "i", "c", "e", "n", "s", "e", "N", "o", "\"", ":", "\"", "1", "0", "0", "1", "\"">>,
    <<"<", "d", "i", "v", ">">>}

\* the pages of up to n pieces
RECURSIVE PagesOf(_)
PagesOf(n) ==
    IF n = 0 THEN {<<>>}
    ELSE PagesOf(n - 1) \cup {page \o f : page \in PagesOf(n - 1), f \in Fragments}

ExtractProductInfo ==
    /\ call.fn = "extract_product_info"
    /\ Returns(extract_product_info(call.content, call.product_name, call.pvid))

InitEnricher ==
    \E page \in PagesOf(MaxFragments) :
        Called([fn |-> "extract_product_info", content |-> page,
                product_name |-> <<"A", "m", "u", "l", " ", "B", "u", "t", "t", "e", "r">>, pvid |-> <<"0", "a", "1", "b">>])

NextEnricher == ExtractProductInfo

SpecEnricher == InitEnricher /\ [][NextEnricher]_vars

-----------------------------------------------------------------------------
(* C20 *)

\* extract_product_info has returned a record for the page
InfoExtracted ==
    call.fn = "extract_product_info" /\ returned.done /\ returned.value # ValueError

\* the page holds one of the two not-found markers
HasMarker ==
    \E m \in {Marker404, MarkerLookingFor} :
        \E p \in 1..Len(call.content) : LitAt(call.content, p, m)

\* C20: the record of a page is marked is_404 exactly when the page holds a
\* not-found marker and the record carries neither nutrition nor ingredients.
C20_NotFoundIffMarkerAndNothingExtracted ==
    InfoExtracted =>
        (returned.value.is_404 <=>
            /\ HasMarker
            /\ returned.value.nutrition = NoneValue
            /\ returned.value.ingredients \in {None, <<>>})

\* a page with a marker and with a nutrition line is not marked not found
C20_Witness ==
    /\ InfoExtracted
    /\ call.content = <<"N", "E", "X", "T", "_", "H", "T", "T", "P", "_", "E", "R", "R", "O", "R", "_", "F", "A", "L", "L", "B", "A", "C", "K", ";", "4", "0", "4">> \o
                      <<" ", "E", "n", "e", "r", "g", "y", " ", "(", "k", "c", "a", "l", ")", " ", "7", "2", "4", " ">>
    /\ returned.value.has_nutrition
    /\ ~returned.value.is_404

-----------------------------------------------------------------------------
(* SpecBatch: batch_enrich works through a batch of products; every curl   *)
(* run of fetch_product_page ends in one of the ways subprocess.run can.   *)

MaxBatch == 2          \* products of a batch in SpecBatch

\* the body length that line 35 asks a page to exceed
MinBody == 10000

\* the number of attempts: the default of the parameter retries, line 20
Retries == 2

\* the ways one subprocess.run of curl ends: with an exit status and a body
\* (stdout is the part of the body the extraction reads, length its len),
\* or with an exception
CurlRuns == {
    [kind |-> "completed", returncode |-> 0, length |-> MinBody + 1,
     stdout |-> <<"E", "n", "e", "r", "g", "y", " ", "(", "k", "c", "a", "l", ")", " ", "7", "2", "4", " ">>],
    [kind |-> "completed", returncode |-> 0, length |-> MinBody + 1,
     stdout |-> <<"N", "E", "X", "T", "_", "H", "T", "T", "P", "_", "E", "R", "R", "O", "R", "_", "F", "A", "L", "L", "B", "A", "C", "K", ";", "4", "0", "4", " ">>],
    [kind |-> "completed", returncode |-> 0, length |-> MinBody + 1,
     stdout |-> <<"T", "o", "t", "a", "l", " ", "F", "a", "t", " ", "(", "g", ")", " ", "0", ".", "5", ".", " ">>],
    [kind |-> "completed", returncode |-> 0, length |-> MinBody,
     stdout |-> <<"E", "n", "e", "r", "g", "y", " ", "(", "k", "c", "a", "l", ")", " ", "7", "2", "4", " ">>],
    [kind |-> "completed", returncode |-> 0, length |-> 0, stdout |-> <<>>],
    [kind |-> "completed", returncode |-> 28, length |-> MinBody + 1,
     stdout |-> <<"E", "n", "e", "r", "g", "y", " ", "(", "k", "c", "a", "l", ")", " ", "7", "2", "4", " ">>],
    [kind |-> "TimeoutExpired"],
    [kind |-> "Exception"]}

\* lines 32-42: the body of the first run that exits with 0 and a long
\* enough body; None when no run of the attempts does
fetch_product_page(runs) ==
    LET Usable(j) == /\ runs[j].kind = "completed"
                     /\ runs[j].returncode = 0
                     /\ runs[j].length > MinBody
        good == {j \in 1..Len(runs) : Usable(j)}
    IN IF good = {} THEN None
       ELSE runs[CHOOSE j \in good : \A m \in good : j <= m].stdout

\* lines 140-142: the slug made from the name (the characters that line 140
\* removes are outside the class that line 141 keeps)
SlugOfName(name) ==
    LET Kept(c) == c \in DigitChars \cup {"-"} \cup
                        {LowerCase[u] : u \in DOMAIN LowerCase}
        dashed == SelectSeq(Replace(Lower(name), " ", "-"), Kept)
        marked == [j \in 1..Len(dashed) |->
                      IF j > 1 /\ dashed[j] = "-" /\ dashed[j - 1] = "-"
                      THEN "~dropped" ELSE dashed[j]]
        NotDropped(c) == c # "~dropped"
        single == SelectSeq(marked, NotDropped)
        a == Run(single, {"-"})
        rev == [j \in 1..Len(single) |-> single[Len(single) + 1 - j]]
        b == Run(rev, {"-"})
    IN IF a = Len(single) THEN <<>> ELSE SubSeq(single, a + 1, Len(single) - b)

\* lines 138-143: the address fetched
PageUrl(name, pvid, url) ==
    IF Truthy(url) THEN url
    ELSE <<"h", "t", "t", "p", "s", ":", "/", "/", "w", "w", "w", ".", "z", "e", "p", "t", "o", "n", "o", "w", ".", "c", "o", "m", "/", "p", "n", "/">> \o SlugOfName(name) \o <<"/", "p", "v", "i", "d", "/">> \o pvid


\* the fetch of a product page failed
FetchFailure(pvid, name) ==
    [pvid |-> pvid, name |-> name, error |-> <<"f", "e", "t", "c", "h", "_", "f", "a", "i", "l", "e", "d">>, scraped_at |-> clock]

\* a failed fetch raises
enrich_productRaising(name, pvid, html) ==
    IF ~Truthy(html) THEN ValueError
    ELSE extract_product_info(html, name, pvid)

\* lines 146-165, html being what fetch_product_page returned
enrich_product(name, pvid, html) ==
    IF ~Truthy(html) THEN FetchFailure(pvid, name)
    ELSE extract_product_info(html, name, pvid)

\* r.get(key) is truthy, for the keys that hold booleans
Flag(r, key) == key \in DOMAIN r /\ r[key]

\* lines 213-224: the file written
save_results(results, suffix) ==
    [suffix |-> suffix,
     extracted_at |-> clock,
     count |-> Len(results),
     with_nutrition |-> Cardinality({j \in 1..Len(results) : Flag(results[j], "has_nutrition")}),
     products |-> results]

\* the products a batch is made of: with and without an address, and
\* without a pvid
BatchProducts == {
    [name |-> <<"A", "m", "u", "l", " ", "B", "u", "t", "t", "e", "r", " ", "(", "1", "0", "0", " ", "g", ")">>, pvid |-> <<"0", "a", "1", "b">>, url |-> None],
    [name |-> <<"D", "a", "h", "i">>, pvid |-> <<"c", "2">>, url |-> <<"h", "t", "t", "p", "s", ":", "/", "/", "w", "w", "w", ".", "z", "e", "p", "t", "o", "n", "o", "w", ".", "c", "o", "m", "/", "p", "n", "/", "d", "a", "h", "i", "/", "p", "v", "i", "d", "/", "c", "2">>],
    [name |-> <<"G", "h", "e", "e">>, pvid |-> None, url |-> None]}

\* the batches of up to n products
RECURSIVE BatchesOf(_)
BatchesOf(n) ==
    IF n = 0 THEN {<<>>}
    ELSE BatchesOf(n - 1) \cup {Append(b, p) : b \in BatchesOf(n - 1), p \in BatchProducts}

\* the runs of curl that the attempts of one fetch make
CurlAttempts == [1..Retries -> CurlRuns]

\* lines 170-176: batch_enrich is entered
BatchFrame ==
    [at |-> "loop", i |-> 0, results |-> <<>>, success_count |-> 0,
     error_count |-> 0, saved |-> <<>>, fetched |-> <<>>]

\* lines 186-199: the record of product n is appended and counted, and the
\* intermediate file is written; a ValueError of the extraction ends the batch
BatchAppend(n, asked, record) ==
    IF record = ValueError
    THEN /\ frame' = [frame EXCEPT !.at = "raised", !.fetched = asked]
         /\ returned' = [done |-> TRUE, value |-> ValueError]
    ELSE /\ frame' =
              [frame EXCEPT
                 !.i = n,
                 !.fetched = asked,
                 !.results = Append(@, record),
                 !.success_count = IF Flag(record, "has_nutrition") THEN @ + 1 ELSE @,
                 !.error_count =
                     IF /\ ~Flag(record, "has_nutrition")
                        /\ \/ "error" \in DOMAIN record
                           \/ Flag(record, "is_404")
                     THEN @ + 1 ELSE @,
                 !.saved =
                     IF n % call.batch_size = 0
                     THEN Append(@, save_results(Append(frame.results, record),
                              [name |-> "batch", number |-> n \div call.batch_size]))
                     ELSE @]
         /\ UNCHANGED returned

\* lines 177-199: one turn of the loop; fetched keeps, for every page
\* asked for, the address and what fetch_product_page returned
BatchTurn ==
    /\ call.fn = "batch_enrich"
    /\ frame.at = "loop"
    /\ frame.i < Len(call.products)
    /\ UNCHANGED <<apivars, call, disk, catalogue>>
    /\ IF ~Truthy(call.products[frame.i + 1].pvid)
       THEN /\ frame' = [frame EXCEPT !.i = @ + 1]
            /\ UNCHANGED returned
       ELSE \E html \in {fetch_product_page(runs) : runs \in CurlAttempts} :
              BatchAppend(frame.i + 1,
                          Append(frame.fetched,
                                 [url |-> PageUrl(call.products[frame.i + 1].name,
                                                  call.products[frame.i + 1].pvid,
                                                  call.products[frame.i + 1].url),
                                  html |-> html]),
                          enrich_product(call.products[frame.i + 1].name,
                                         call.products[frame.i + 1].pvid, html))

\* lines 201-210: the final file is written and the results are returned
BatchReturn ==
    /\ call.fn = "batch_enrich"
    /\ frame.at = "loop"
    /\ frame.i = Len(call.products)
    /\ frame' = [frame EXCEPT !.at = "returned",
                              !.saved = Append(@, save_results(frame.results, [name |-> "final"]))]
    /\ returned' = [done |-> TRUE, value |-> frame.results]
    /\ UNCHANGED <<apivars, call, disk, catalogue>>

InitBatch ==
    \E products \in BatchesOf(MaxBatch), batch_size \in {1, 50} :
        /\ BootStore(NoFile)
        /\ call = [fn |-> "batch_enrich", products |-> products, batch_size |-> batch_size]
        /\ returned = NotReturned
        /\ frame = BatchFrame
        /\ disk = NoDisk
        /\ catalogue = NotLoaded

NextBatch == BatchTurn \/ BatchReturn

SpecBatch == InitBatch /\ [][NextBatch]_vars

-----------------------------------------------------------------------------
(* C21 *)

\* the products of the batch that carry a pvid, among the first n
WithPvid(n) == {j \in 1..n : Truthy(call.products[j].pvid)}

\* C21: a page whose fetch failed gives the record tagged error with the
\* pvid, the name and the time and nothing else, the batch does not end at
\* it, and a batch that returns holds one record for every product with a
\* pvid.
C21_FetchFailureIsARecord ==
    call.fn = "batch_enrich" =>
        /\ \A k \in 1..Len(frame.fetched) :
              frame.fetched[k].html = None =>
                 /\ k <= Len(frame.results)
                 /\ frame.results[k] =
                        [pvid |-> frame.results[k].pvid, name |-> frame.results[k].name,
                         error |-> <<"f", "e", "t", "c", "h", "_", "f", "a", "i", "l", "e", "d">>, scraped_at |-> clock]
        /\ Len(frame.fetched) = Cardinality(WithPvid(frame.i)) + (IF frame.at = "raised" THEN 1 ELSE 0)
        /\ frame.at # "raised" => Len(frame.results) = Cardinality(WithPvid(frame.i))
        /\ frame.at = "returned" =>
              /\ frame.i = Len(call.products)
              /\ returned.value = frame.results

\* the first page of a batch of two could not be fetched and the second
\* was read
C21_Witness ==
    /\ call.fn = "batch_enrich"
    /\ frame.at = "returned"
    /\ Len(frame.fetched) = 2
    /\ frame.fetched[1].html = None
    /\ "error" \in DOMAIN frame.results[1]
    /\ Flag(frame.results[2], "has_nutrition")

-----------------------------------------------------------------------------
(* SpecCrawl: one crawl pass.  The Zepto scraper writes the category and   *)
(* brand files, scrapes the product sitemaps on the threads of a pool and  *)
(* merges what they return; filter_food_products and the import of the API *)
(* module follow.  The BigBasket scraper takes its sitemaps one by one.    *)

MaxShards == 2         \* product sitemaps of a crawl in SpecCrawl

\* ThreadPoolExecutor(max_workers=5), line 198
MaxWorkers == 5

Zepto == <<"h", "t", "t", "p", "s", ":", "/", "/", "w", "w", "w", ".", "z", "e", "p", "t", "o", ".", "c", "o", "m">>

\* the product sitemaps: a record, the same variantId under another name,
\* a sitemap that cannot be parsed after its first record (the same
\* variantId under a name that is no food), one that cannot be fetched, and
\* a record of another variantId
Shards == {
    Fetched(<<[loc |-> ProductUrl(Zepto, <<"r", "i", "c", "e">>, <<"0", "a", "1", "b">>)]>>),
    Fetched(<<[loc |-> ProductUrl(Zepto, <<"a", "m", "u", "l", "-", "b", "u", "t", "t", "e", "r", "-", "5", "0", "0", "-", "g">>, <<"0", "a", "1", "b">>)]>>),
    Fetched(<<[loc |-> ProductUrl(Zepto, <<"s", "o", "a", "p">>, <<"0", "a", "1", "b">>)], [loc |-> None],
              [loc |-> ProductUrl(Zepto, <<"r", "i", "c", "e">>, <<"0", "a", "1", "b">>)]>>),
    FetchFailed,
    Fetched(<<[loc |-> ProductUrl(Zepto, <<"g", "h", "e", "e">>, <<"d", "3">>)]>>)}

\* the brand sitemaps: two brands, and one slug in two spellings
BrandSitemaps == {
    Fetched(<<[loc |-> Zepto \o <<"/", "b", "r", "a", "n", "d", "/", "A", "m", "u", "l", "/", "a", "1">>], [loc |-> Zepto \o <<"/", "b", "r", "a", "n", "d", "/", "T", "a", "t", "a", "/", "b", "2">>]>>),
    Fetched(<<[loc |-> Zepto \o <<"/", "b", "r", "a", "n", "d", "/", "A", "m", "u", "l", "/", "a", "1">>], [loc |-> Zepto \o <<"/", "b", "r", "a", "n", "d", "/", "a", "m", "u", "l", "/", "b", "2">>]>>)}

\* what scrape_products_sitemap returns for each of them, lines 99-135
ResultOfShard == [m \in Shards |-> scrape_products_sitemap(m)]

\* the sequences of up to n product sitemaps
RECURSIVE ShardSeqs(_)
ShardSeqs(n) ==
    IF n = 0 THEN {<<>>}
    ELSE ShardSeqs(n - 1) \cup {Append(q, m) : q \in ShardSeqs(n - 1), m \in Shards}

\* the first record of a key is kept
IndexByFirst(records, key) ==
    LET At(k) == {j \in 1..Len(records) : records[j][key] = k}
    IN [k \in {records[j][key] : j \in 1..Len(records)} |->
           records[CHOOSE j \in At(k) : \A m \in At(k) : j <= m]]

\* the dict {r[key]: r for r in records}: a key maps to its last record
IndexBy(records, key) ==
    LET At(k) == {j \in 1..Len(records) : records[j][key] = k}
    IN [k \in {records[j][key] : j \in 1..Len(records)} |->
           records[CHOOSE j \in At(k) : \A m \in At(k) : m <= j]]

\* the dict {b['brand_slug'].lower(): b for b in BRANDS}, line 31
IndexByLowerSlug(brands) ==
    LET At(k) == {j \in 1..Len(brands) : Lower(brands[j].brand_slug) = k}
    IN [k \in {Lower(brands[j].brand_slug) : j \in 1..Len(brands)} |->
           brands[CHOOSE j \in At(k) : \A m \in At(k) : m <= j]]

\* zepto_scraper.py lines 170-197: the category and the brand file are
\* written; the sitemap index is fetched and a task is submitted for each
\* product sitemap, or the fetch of the index raises
MainSubmit ==
    /\ call.fn = "main"
    /\ frame.at = "start"
    /\ disk' = [disk EXCEPT
                  !.categories_json =
                      [count |-> Len(scrape_categories(call.categories)),
                       categories |-> scrape_categories(call.categories)],
                  !.brands_json =
                      [count |-> Len(scrape_brands(call.brands)),
                       brands |-> scrape_brands(call.brands)]]
    /\ IF call.index_failed
       THEN /\ frame' = [frame EXCEPT !.at = "raised"]
            /\ returned' = [done |-> TRUE, value |-> [kind |-> "HTTPError"]]
       ELSE /\ frame' = [frame EXCEPT
                           !.at = "pool",
                           !.futures = [k \in 1..Len(call.product_sitemaps) |->
                                           [state |-> "queued"]]]
            /\ UNCHANGED returned
    /\ UNCHANGED <<apivars, call, catalogue>>

\* a thread of the pool takes a task that waits
WorkerTakes(k) ==
    /\ call.fn = "main"
    /\ frame.at = "pool"
    /\ frame.futures[k].state = "queued"
    /\ Cardinality({j \in DOMAIN frame.futures : frame.futures[j].state = "running"}) < MaxWorkers
    /\ frame' = [frame EXCEPT !.futures[k] = [state |-> "running"]]
    /\ UNCHANGED <<apivars, call, returned, disk, catalogue>>

\* the thread itself extends all_products with what it scraped
WorkerReturnsExtending(k) ==
    /\ call.fn = "main"
    /\ frame.at = "pool"
    /\ frame.futures[k].state = "running"
    /\ frame' = [frame EXCEPT
                    !.futures[k] = [state |-> "finished",
                                    result |-> ResultOfShard[call.product_sitemaps[k]]],
                    !.all_products = @ \o ResultOfShard[call.product_sitemaps[k]]]
    /\ UNCHANGED <<apivars, call, returned, disk, catalogue>>

\* the thread returns from scrape_products_sitemap, lines 99-135: the
\* future holds its result
WorkerReturns(k) ==
    /\ call.fn = "main"
    /\ frame.at = "pool"
    /\ frame.futures[k].state = "running"
    /\ frame' = [frame EXCEPT !.futures[k] =
                    [state |-> "finished",
                     result |-> ResultOfShard[call.product_sitemaps[k]]]]
    /\ UNCHANGED <<apivars, call, returned, disk, catalogue>>

\* the exception of a sitemap that could not be fetched ends the run
MergeRaising(k) ==
    /\ call.fn = "main"
    /\ frame.at = "pool"
    /\ frame.futures[k].state = "finished"
    /\ k \notin Range(frame.yielded)
    /\ frame' = IF call.product_sitemaps[k].failed
                THEN [frame EXCEPT !.at = "raised"]
                ELSE [frame EXCEPT
                        !.yielded = Append(@, k),
                        !.all_products = @ \o frame.futures[k].result]
    /\ UNCHANGED <<apivars, call, returned, disk, catalogue>>

\* lines 199-208: as_completed yields a future that has finished and was
\* not yielded before; the main thread extends all_products with its result
Merge(k) ==
    /\ call.fn = "main"
    /\ frame.at = "pool"
    /\ frame.futures[k].state = "finished"
    /\ k \notin Range(frame.yielded)
    /\ frame' = [frame EXCEPT
                    !.yielded = Append(@, k),
                    !.all_products = @ \o frame.futures[k].result]
    /\ UNCHANGED <<apivars, call, returned, disk, catalogue>>

\* lines 210-223: every future was yielded; products.json is written
MainSave ==
    /\ call.fn = "main"
    /\ frame.at = "pool"
    /\ Len(frame.yielded) = Len(call.product_sitemaps)
    /\ disk' = [disk EXCEPT !.products_json =
                   [count |-> Len(frame.all_products),
                    scraped_at |-> clock,
                    products |-> frame.all_products]]
    /\ frame' = [frame EXCEPT !.at = "saved"]
    /\ returned' = [done |-> TRUE, value |-> NoneValue]
    /\ UNCHANGED <<apivars, call, catalogue>>

\* filter_food_products.py lines 120-147: products_food.json is written
\* from products.json
FilterMain ==
    /\ disk.products_json # Absent
    /\ disk.products_food_json = Absent
    /\ LET food_products == SelectSeq(disk.products_json.products, is_food_product)
       IN disk' = [disk EXCEPT !.products_food_json =
                      [count |-> Len(food_products),
                       source |-> "zepto.com",
                       scraped_at |-> disk.products_json.scraped_at,
                       filter |-> "food_only",
                       products |-> food_products]]
    /\ UNCHANGED <<apivars, call, returned, frame, catalogue>>

\* main.py lines 17-31: the API module is imported
ApiImport ==
    /\ disk.products_food_json # Absent
    /\ disk.categories_json # Absent
    /\ disk.brands_json # Absent
    /\ ~catalogue.loaded
    /\ catalogue' =
          [loaded |-> TRUE,
           PRODUCTS_DATA |-> disk.products_food_json,
           PRODUCTS |-> disk.products_food_json.products,
           CATEGORIES |-> disk.categories_json.categories,
           BRANDS |-> disk.brands_json.brands,
           PRODUCTS_BY_ID |-> IndexBy(disk.products_food_json.products, "product_variant_id"),
           BRANDS_BY_ID |-> IndexBy(disk.brands_json.brands, "brand_id"),
           BRANDS_BY_SLUG |-> IndexByLowerSlug(disk.brands_json.brands)]
    /\ UNCHANGED <<apivars, call, returned, frame, disk>>

\* bigbasket_sitemap_scraper.py lines 149-158
BIGBASKET_FOOD_KEYWORDS == <<
    <<"r", "i", "c", "e">>, <<"d", "a", "l">>, <<"a", "t", "t", "a">>, <<"o", "i", "l">>, <<"g", "h", "e", "e">>, <<"s", "u", "g", "a", "r">>, <<"s", "a", "l", "t">>, <<"m", "a", "s", "a", "l", "a">>, <<"s", "p", "i", "c", "e">>,
    <<"m", "i", "l", "k">>, <<"c", "u", "r", "d">>, <<"p", "a", "n", "e", "e", "r">>, <<"c", "h", "e", "e", "s", "e">>, <<"b", "u", "t", "t", "e", "r">>, <<"c", "r", "e", "a", "m">>,
    <<"b", "r", "e", "a", "d">>, <<"b", "i", "s", "c", "u", "i", "t">>, <<"c", "o", "o", "k", "i", "e">>, <<"c", "a", "k", "e">>, <<"c", "h", "i", "p", "s">>, <<"n", "a", "m", "k", "e", "e", "n">>,
    <<"t", "e", "a">>, <<"c", "o", "f", "f", "e", "e">>, <<"j", "u", "i", "c", "e">>, <<"d", "r", "i", "n", "k">>, <<"w", "a", "t", "e", "r">>,
    <<"f", "r", "u", "i", "t">>, <<"v", "e", "g", "e", "t", "a", "b", "l", "e">>, <<"e", "g", "g">>, <<"m", "e", "a", "t">>, <<"f", "i", "s", "h">>, <<"c", "h", "i", "c", "k", "e", "n">>,
    <<"h", "o", "n", "e", "y">>, <<"j", "a", "m">>, <<"s", "a", "u", "c", "e">>, <<"k", "e", "t", "c", "h", "u", "p">>, <<"p", "i", "c", "k", "l", "e">>, <<"c", "h", "u", "t", "n", "e", "y">>,
    <<"n", "o", "o", "d", "l", "e">>, <<"p", "a", "s", "t", "a">>, <<"o", "a", "t", "s">>, <<"c", "e", "r", "e", "a", "l">>, <<"m", "u", "e", "s", "l", "i">>,
    <<"c", "h", "o", "c", "o", "l", "a", "t", "e">>, <<"s", "w", "e", "e", "t">>, <<"c", "a", "n", "d", "y">>, <<"d", "r", "y", "-", "f", "r", "u", "i", "t">>, <<"n", "u", "t">>>>

\* what fetch_sitemap and parse_product_sitemap make of one product
\* sitemap, lines 119-120: the list of its products, or an exception of
\* the request or of the XML parser
BigBasketShards == {
    [raised |-> "HTTPError"],
    [raised |-> "ParseError"],
    [raised |-> "no", products |-> <<[product_id |-> <<"1", "0", "1">>, slug |-> <<"a", "m", "u", "l", "-", "b", "u", "t", "t", "e", "r">>]>>],
    [raised |-> "no", products |-> <<[product_id |-> <<"2", "0", "2">>, slug |-> <<"l", "u", "x", "-", "s", "o", "a", "p">>],
                                     [product_id |-> <<"1", "0", "1">>, slug |-> <<"a", "m", "u", "l", "-", "b", "u", "t", "t", "e", "r">>]>>]}

RECURSIVE BigBasketShardSeqs(_)
BigBasketShardSeqs(n) ==
    IF n = 0 THEN {<<>>}
    ELSE BigBasketShardSeqs(n - 1)
           \cup {Append(q, m) : q \in BigBasketShardSeqs(n - 1), m \in BigBasketShards}

\* lines 117-125: the next product sitemap; an exception of the fetch or
\* of the parser is caught and the sitemap adds nothing
ScrapeNext ==
    /\ call.fn = "scrape_all_products"
    /\ frame.at = "loop"
    /\ frame.n < Len(call.product_sitemaps)
    /\ frame' = [frame EXCEPT
                    !.n = @ + 1,
                    !.all_products =
                        IF call.product_sitemaps[frame.n + 1].raised = "no"
                        THEN @ \o call.product_sitemaps[frame.n + 1].products
                        ELSE @]
    /\ UNCHANGED <<apivars, call, returned, disk, catalogue>>

\* lines 127-176: the two files are written and all_products is returned
ScrapeSave ==
    /\ call.fn = "scrape_all_products"
    /\ frame.at = "loop"
    /\ frame.n = Len(call.product_sitemaps)
    /\ LET IsFood(p) == /\ Truthy(p.slug)
                        /\ FirstKeywordIn(BIGBASKET_FOOD_KEYWORDS, Lower(p.slug)) # 0
           food_products == SelectSeq(frame.all_products, IsFood)
       IN disk' = [disk EXCEPT
                     !.products_all_json =
                         [scraped_at |-> clock, source |-> "bigbasket.com",
                          total_products |-> Len(frame.all_products),
                          products |-> frame.all_products],
                     !.bigbasket_food_json =
                         [scraped_at |-> clock, source |-> "bigbasket.com",
                          total_products |-> Len(food_products),
                          products |-> food_products]]
    /\ frame' = [frame EXCEPT !.at = "saved"]
    /\ returned' = [done |-> TRUE, value |-> frame.all_products]
    /\ UNCHANGED <<apivars, call, catalogue>>

\* the scraper script that is started, with what the site will answer
CrawlCalls ==
    {[fn |-> "main", categories |-> Fetched(<<[loc |-> CategoryUrl]>>), brands |-> b,
      index_failed |-> FALSE, product_sitemaps |-> q] :
         b \in BrandSitemaps, q \in ShardSeqs(MaxShards)}
      \cup {[fn |-> "main", categories |-> FetchFailed, brands |-> b,
             index_failed |-> TRUE, product_sitemaps |-> <<>>] : b \in BrandSitemaps}
      \cup {[fn |-> "scrape_all_products", product_sitemaps |-> q] :
               q \in BigBasketShardSeqs(MaxShards)}

CrawlFrame(c) ==
    IF c.fn = "main"
    THEN [at |-> "start", futures |-> <<>>, yielded |-> <<>>, all_products |-> <<>>]
    ELSE [at |-> "loop", n |-> 0, all_products |-> <<>>]

InitCrawl ==
    \E c \in CrawlCalls :
        /\ BootStore(NoFile)
        /\ call = c
        /\ returned = NotReturned
        /\ frame = CrawlFrame(c)
        /\ disk = NoDisk
        /\ catalogue = NotLoaded

NextCrawl ==
    \/ MainSubmit
    \/ \E k \in 1..Len(call.product_sitemaps) : WorkerTakes(k)
    \/ \E k \in 1..Len(call.product_sitemaps) : WorkerReturns(k)
    \/ \E k \in 1..Len(call.product_sitemaps) : Merge(k)
    \/ MainSave
    \/ FilterMain
    \/ ApiImport
    \/ ScrapeNext
    \/ ScrapeSave

SpecCrawl == InitCrawl /\ [][NextCrawl]_vars

-----------------------------------------------------------------------------
(* C22 *)

\* the API module has been imported after a crawl of the Zepto scraper
LoadedAfterCrawl == call.fn = "main" /\ catalogue.loaded

\* no record after place j of the list has the key of record j
LastOfItsKey(records, key, j) ==
    \A m \in (j + 1)..Len(records) : records[m][key] # records[j][key]

\* the results of the sitemaps in the order they were merged
MergedResults == [x \in 1..Len(frame.yielded) |-> frame.futures[frame.yielded[x]].result]

-----------------------------------------------------------------------------
(* C23 *)

\* the steps of the two scraper scripts once the product sitemaps are known
CrawlStep ==
    \/ \E k \in 1..Len(call.product_sitemaps) : WorkerTakes(k)
    \/ \E k \in 1..Len(call.product_sitemaps) : WorkerReturns(k)
    \/ \E k \in 1..Len(call.product_sitemaps) : Merge(k)
    \/ MainSave
    \/ ScrapeNext
    \/ ScrapeSave

\* the threads of the pool and the main thread of a script keep running
SpecCrawlFair == SpecCrawl /\ WF_vars(CrawlStep)

\* the script is at work on its product sitemaps
Crawling == frame.at \in {"pool", "loop"}

\* the script has written its product file
CrawlPersisted ==
    /\ frame.at = "saved"
    /\ IF call.fn = "main" THEN disk.products_json # Absent
       ELSE disk.products_all_json # Absent /\ disk.bigbasket_food_json # Absent

\* the records sitemap k holds when it can be fetched and parsed, and none
\* when it cannot
RecordsOfShard(k) ==
    IF call.fn = "main"
    THEN IF \/ call.product_sitemaps[k].failed
            \/ \E e \in Range(call.product_sitemaps[k].urls) :
                  "loc" \in DOMAIN e /\ e.loc = None
         THEN {}
         ELSE {ProductOf(e) : e \in Range(call.product_sitemaps[k].urls)} \ {NoneValue}
    ELSE IF call.product_sitemaps[k].raised # "no" THEN {}
         ELSE Range(call.product_sitemaps[k].products)

\* the product list of the file written
PersistedProducts ==
    IF call.fn = "main" THEN disk.products_json.products
    ELSE disk.products_all_json.products

\* every record of every sitemap that was fetched and parsed is in the file
EverySucceededShardKept ==
    CrawlPersisted =>
        \A k \in 1..Len(call.product_sitemaps) :
            RecordsOfShard(k) \subseteq Range(PersistedProducts)

\* C23: a crawl that has its list of product sitemaps comes to write its
\* product file, whichever sitemaps fail, and the file holds every record of
\* every sitemap that was fetched and parsed.
C23_FailingShardIsSkipped ==
    /\ [](EverySucceededShardKept)
    /\ (Crawling ~> CrawlPersisted)

\* the first sitemap could not be fetched, the second gave its record, and
\* the file holds it; the same for the BigBasket scraper with the failing
\* sitemap last
C23_Witness ==
    /\ CrawlPersisted
    /\ Len(call.product_sitemaps) = 2
    /\ \/ /\ call.fn = "main"
          /\ call.product_sitemaps[1].failed
          /\ ~call.product_sitemaps[2].failed
          /\ Len(disk.products_json.products) = 1
       \/ /\ call.fn = "scrape_all_products"
          /\ call.product_sitemaps[2].raised = "ParseError"
          /\ Len(disk.products_all_json.products) = 2

-----------------------------------------------------------------------------
(* C24 *)

\* C24 as claimed: once the crawl has merged all sitemaps and the API has
\* loaded the catalogue, no two records of the product list carry the same
\* variantId, and the count of the file, the length of the list and the
\* size of the index by id are the same number.
C24_CollectionDeduplicated ==
    LoadedAfterCrawl =>
        /\ \A j, m \in 1..Len(catalogue.PRODUCTS) :
              j # m => catalogue.PRODUCTS[j].product_variant_id
                          # catalogue.PRODUCTS[m].product_variant_id
        /\ catalogue.PRODUCTS_DATA.count = Len(catalogue.PRODUCTS)
        /\ Len(catalogue.PRODUCTS) = Cardinality(DOMAIN catalogue.PRODUCTS_BY_ID)

-----------------------------------------------------------------------------
(* SpecCategories: GET /categories over the categories the API has loaded. *)

MaxCategories == 3     \* records of CATEGORIES in SpecCategories

\* category URLs: two subcategories of one category, another category,
\* and a subcategory listed under both
CategoryUrls == {
    Zepto \o <<"/", "c", "n", "/", "d", "a", "i", "r", "y", "/", "m", "i", "l", "k", "-", "c", "u", "r", "d", "/", "c", "i", "d", "/", "1", "a", "/", "s", "c", "i", "d", "/", "2", "b">>,
    Zepto \o <<"/", "c", "n", "/", "d", "a", "i", "r", "y", "/", "c", "h", "e", "e", "s", "e", "/", "c", "i", "d", "/", "1", "a", "/", "s", "c", "i", "d", "/", "3", "c">>,
    Zepto \o <<"/", "c", "n", "/", "s", "n", "a", "c", "k", "s", "/", "c", "h", "i", "p", "s", "/", "c", "i", "d", "/", "4", "d", "/", "s", "c", "i", "d", "/", "5", "e">>,
    Zepto \o <<"/", "c", "n", "/", "s", "n", "a", "c", "k", "s", "/", "m", "i", "l", "k", "-", "c", "u", "r", "d", "/", "c", "i", "d", "/", "4", "d", "/", "s", "c", "i", "d", "/", "2", "b">>}

\* the records scrape_categories makes of them
CategoryRecords == {parse_category_url(u) : u \in CategoryUrls}

RECURSIVE CategoryLists(_)
CategoryLists(n) ==
    IF n = 0 THEN {<<>>}
    ELSE CategoryLists(n - 1)
           \cup {Append(q, c) : q \in CategoryLists(n - 1), c \in CategoryRecords}

\* lines 179-183: what a record adds to the list of its group
Subcategory(cat) ==
    [subcategory_slug |-> cat.subcategory_slug,
     subcategory_name |-> cat.subcategory_name,
     subcategory_id |-> cat.subcategory_id]

\* a record is put under the first group
list_categoriesOneGroup(categories) ==
    LET Group1(j) ==
            [category_slug |-> categories[1].category_slug,
             category_name |-> categories[1].category_name,
             category_id |-> categories[1].category_id,
             subcategories |-> [m \in 1..Len(categories) |-> Subcategory(categories[m])]]
    IN [categories |-> [j \in 1..(IF categories = <<>> THEN 0 ELSE 1) |-> Group1(j)]]

\* lines 166-185: the dict grouped keeps the slugs in the order they are
\* first met, and a group the records of its slug in their order
list_categories(categories) ==
    LET First(j) == \A m \in 1..(j - 1) :
                        categories[m].category_slug # categories[j].category_slug
        firsts == SelectSeq([j \in 1..Len(categories) |-> j], First)
        Of(j) == LET Same(m) == categories[m].category_slug = categories[j].category_slug
                 IN SelectSeq([m \in 1..Len(categories) |-> m], Same)
        Grouped(j) ==
            [category_slug |-> categories[j].category_slug,
             category_name |-> categories[j].category_name,
             category_id |-> categories[j].category_id,
             subcategories |-> [p \in 1..Len(Of(j)) |-> Subcategory(categories[Of(j)[p]])]]
    IN [categories |-> [g \in 1..Len(firsts) |-> Grouped(firsts[g])]]

ListCategories ==
    /\ call.fn = "list_categories"
    /\ Returns(list_categories(catalogue.CATEGORIES))

InitCategories ==
    \E categories \in CategoryLists(MaxCategories) :
        /\ BootStore(NoFile)
        /\ call = [fn |-> "list_categories"]
        /\ returned = NotReturned
        /\ frame = NoFrame
        /\ disk = NoDisk
        /\ catalogue = [loaded |-> TRUE, CATEGORIES |-> categories]

NextCategories == ListCategories

SpecCategories == InitCategories /\ [][NextCategories]_vars

-----------------------------------------------------------------------------
(* C25 *)

\* GET /categories has answered
CategoriesListed == call.fn = "list_categories" /\ returned.done

\* the places <<group, place in the group>> of the answer, in their order
\* (group by group), as a sequence
RECURSIVE PlacesUpTo(_, _)
PlacesUpTo(groups, g) ==
    IF g = 0 THEN <<>>
    ELSE PlacesUpTo(groups, g - 1)
           \o [p \in 1..Len(groups[g].subcategories) |-> <<g, p>>]

-----------------------------------------------------------------------------
(* C26 *)

\* the concatenation of the first n results merged
RECURSIVE MergedUpTo(_)
MergedUpTo(n) ==
    IF n = 0 THEN <<>>
    ELSE MergedUpTo(n - 1) \o frame.futures[frame.yielded[n]].result

\* all_products is what the sitemaps merged so far returned, each merged
\* once, and none is left out when the file is written
MergedOnce ==
    call.fn = "main" /\ frame.at \in {"pool", "saved"} =>
        /\ \A x, y \in 1..Len(frame.yielded) : x # y => frame.yielded[x] # frame.yielded[y]
        /\ \A x \in 1..Len(frame.yielded) : frame.futures[frame.yielded[x]].state = "finished"
        /\ frame.all_products = MergedUpTo(Len(frame.yielded))
        /\ frame.at = "saved" => Range(frame.yielded) = 1..Len(call.product_sitemaps)

\* a step that changes all_products or the futures merged is the main
\* thread taking one finished future that was not merged before
OneWriter ==
    (call.fn = "main" /\ <<frame.all_products, frame.yielded>>' # <<frame.all_products, frame.yielded>>) =>
        \E k \in 1..Len(call.product_sitemaps) :
            /\ frame.futures[k].state = "finished"
            /\ k \notin Range(frame.yielded)
            /\ frame'.yielded = Append(frame.yielded, k)
            /\ frame'.all_products = frame.all_products \o frame.futures[k].result
            /\ frame'.futures = frame.futures

\* C26: all_products is changed only by the main thread, by the result of
\* one finished sitemap at a step, and every sitemap is merged exactly once.
C26_SingleWriter == [](MergedOnce) /\ [][OneWriter]_vars

\* both sitemaps have finished and were merged, the second first
C26_Witness ==
    /\ call.fn = "main"
    /\ frame.at = "pool"
    /\ frame.yielded = <<2, 1>>
    /\ Len(frame.all_products) = 2
    /\ frame.all_products[1].slug = <<"g", "h", "e", "e">>
    /\ frame.all_products[2].slug = <<"r", "i", "c", "e">>

-----------------------------------------------------------------------------
(* C27 *)

\* C27 as claimed: the key of an item leads to a series that an item of
\* the same source has created: an observation is appended only to a
\* series whose source is the source of the request.
C27_SeriesKeyInjective ==
    \A t \in Workers :
        pc[t] = "append" => Lookup(PRICE_DATA, Key(t)).source = Source(t)

-----------------------------------------------------------------------------
(* C28 *)

\* the keys that the items of the ingest calls under way produce
KeysOfBatches ==
    UNION {{KeyOf(Source(t), Products(t)[j]) : j \in 1..Len(Products(t))} :
              t \in {w \in Workers : pc[w] # "idle"}}

\* a step leaves every series in its place with its name, packsize and
\* source; it leaves alone the history of a series whose key no ingest call
\* under way produces, and adds series of such keys only; a step taken while
\* no ingest call is under way (a query, a history request) changes nothing
\* in the store and in the file
FrameKept ==
    /\ Len(PRICE_DATA') >= Len(PRICE_DATA)
    /\ \A j \in 1..Len(PRICE_DATA) :
          /\ PRICE_DATA'[j].key = PRICE_DATA[j].key
          /\ PRICE_DATA'[j].name = PRICE_DATA[j].name
          /\ PRICE_DATA'[j].packsize = PRICE_DATA[j].packsize
          /\ PRICE_DATA'[j].source = PRICE_DATA[j].source
          /\ PRICE_DATA[j].key \notin KeysOfBatches =>
                lists'[PRICE_DATA'[j].price_history] = lists[PRICE_DATA[j].price_history]
    /\ \A j \in (Len(PRICE_DATA) + 1)..Len(PRICE_DATA') :
          PRICE_DATA'[j].key \in KeysOfBatches
    /\ (\A t \in Workers : pc[t] = "idle" /\ pc'[t] = "idle") =>
          /\ Dump(PRICE_DATA', lists') = Dump(PRICE_DATA, lists)
          /\ file' = file

\* C28 as claimed: ingest changes the price_history of the series keyed by the items
\* of its batch and nothing else of a series there is: name, packsize and
\* source stay as they were at creation, and a series of another key stays
\* as it is; get_prices and get_price_history change nothing.  (A restart
\* of the process is no request.)
C28_FrameOfIngest == [][Restart \/ FrameKept]_vars

-----------------------------------------------------------------------------
(* C29 *)

\* the results of the first n sitemaps in the order of the sitemap index
RECURSIVE InIndexOrder(_)
InIndexOrder(n) ==
    IF n = 0 THEN <<>>
    ELSE InIndexOrder(n - 1) \o ResultOfShard[call.product_sitemaps[n]]

\* C29 as claimed: the product list written, and the record the index by id
\* holds for a variantId, are fixed by the contents of the sitemaps.  The
\* threads can complete in the order of the sitemap index, so a result that
\* is the same for every order of completion is the result of that order.
C29_CrawlDeterministic ==
    /\ (call.fn = "main" /\ frame.at = "saved") =>
          disk.products_json.products = InIndexOrder(Len(call.product_sitemaps))
    /\ LoadedAfterCrawl =>
          catalogue.PRODUCTS_BY_ID =
              IndexBy(SelectSeq(InIndexOrder(Len(call.product_sitemaps)), is_food_product),
                      "product_variant_id")

-----------------------------------------------------------------------------
(* SpecKeywords: is_food_product is applied to the products named by one   *)
(* keyword of the inclusion list.                                          *)

InitKeywords ==
    \E j \in 1..Len(FOOD_KEYWORDS) :
        Called([fn |-> "is_food_product", product |-> [name |-> FOOD_KEYWORDS[j], slug |-> <<>>]])

NextKeywords == IsFoodProduct

SpecKeywords == InitKeywords /\ [][NextKeywords]_vars

-----------------------------------------------------------------------------
(* C30 *)

\* C30 as claimed: a product whose name is one keyword of the inclusion
\* list, with an empty slug, is classified as food.
C30_EveryKeywordEffective ==
    (call.fn = "is_food_product" /\ returned.done) => returned.value = TRUE

====
